---- MODULE Spec2Model ----
(***************************************************************************)
(* Model of the quiz bot (Bot 0.1): the paced delivery dispatcher          *)
(* send_paginated_quizzes (utils.py), the CSV row adapter process_csv_file *)
(* (handlers.py) and the text extractor extract_questions_from_text        *)
(* (utils.py).                                                             *)
(*                                                                         *)
(* Three specifications share the variables:                               *)
(*   Spec      one run of send_paginated_quizzes, one step per await;      *)
(*   SpecCsv   the row loop of process_csv_file, one step per row;         *)
(*   SpecText  extract_questions_from_text, one step per pattern.          *)
(***************************************************************************)
EXTENDS Integers, Sequences, FiniteSets, TLC

VARIABLES
    \* ---- send_paginated_quizzes -------------------------------------
    nq,            \* len(questions), the records are numbered 1..nq
    pc,            \* position of the coroutine (the await it is at)
    i,             \* loop variable of `for i in range(0, len(questions), BATCH_SIZE)`
    q_index,       \* loop variable of `for q_index, q in enumerate(batch)`
    sent_count,
    error_count,
    retry_time,    \* seconds to wait after a rate-limit failure
    err,           \* the exception caught at line 205 while its handler runs
    result,        \* the returned tuple, NoResult until the return
    \* history of the run (what the target channel and the clock observe)
    attempted,     \* records that received at least one send_poll call
    lastPolled,    \* record passed to the most recent send_poll call, 0 if none
    curPolls,      \* send_poll calls made for record lastPolled
    curStatus,     \* outcome of the latest of them: "sent", "failed" ("none" at first)
    slept,         \* seconds suspended since the most recent send_poll call
    nSent,         \* records before lastPolled whose latest send_poll call succeeded
    nFailed,       \* records before lastPolled whose latest send_poll call failed
    metered,       \* TRUE in the runs whose calls and sleeps are counted
    polls,         \* send_poll calls made so far, counted when metered
    cooldowns,     \* sleeps of line 226 done so far, counted when metered
    batchDelays,   \* sleeps of line 253 done so far, counted when metered
    announced,     \* initial announcements delivered
    progressSent,  \* batch progress messages delivered
    longPauses,    \* extended-pause notices delivered
    batchesClosed, \* batches whose records and cooldowns are all over
    notifyFailed,  \* a send_message call raised
    \* ---- process_csv_file -------------------------------------------
    csvPc,         \* "rows" while the row loop runs, then the outcome
    csvTotal,      \* total_rows = len(rows)
    csvSeen,       \* rows consumed by the loop
    csvRow,        \* the row handled by the latest iteration
    csvOut,        \* what that iteration did: a record appended, or a skip
    csvQuestions,  \* the list `questions` built by the loop
    csvReport,     \* the reply that ends the call: the figures of lines
                   \* 166-170, or the notice of line 172
    \* ---- extract_questions_from_text --------------------------------
    textPc,        \* "scan" while the loop over the patterns runs, then "returned"
    text,          \* the argument `text`, a sequence of characters
    patIdx,        \* number of patterns already processed
    questions,     \* the list `questions`
    extracted_questions, \* the set of question ids already appended
    candidates,    \* history: the matches that passed the range check of
                   \* line 144, in the order the loops visited them
    matches,       \* Bot 0.2: the tuples re.findall returned, in the order
                   \* the loops of lines 116-120 visit them
    matchIdx,      \* Bot 0.2: number of those tuples already visited
    \* ---- handle_document (Bot 0.1) and handle_pdf_file (Bot 0.2) -----
    program,       \* which of the two bots is running
    signalled,     \* main.py: SIGINT or SIGTERM was received
    now,           \* the clock read at lines 241 (Bot 0.1) and 54 (Bot 0.2)
    user_last_file_time, \* the module-level dictionary, Absent for a missing key
    hPc,           \* per handler coroutine: the await it is at
    hStamp,        \* history: the clock value its submission passed the
                   \* gate with, Absent when it did not
    hUser,         \* message.from_user.id of its message
    hFile,         \* kind of message.document.file_name
    hText,         \* the text extract_text_from_pdf returned to it
    hCount,        \* len(questions) of its extraction
    hResult,       \* the tuple the dispatcher returned to it
    hPreview,      \* characters of the input text in the excerpt it sent
    hTrace,        \* history: what the coroutine did, in order
    \* ---- handle_forwarded_quiz and finish_quiz_batch (Bot 0.2) -----
    user_quiz_batches, \* the module-level dictionary, NoBatch for a missing key
    clock,         \* datetime.now() of line 128, in seconds
    qTasks,        \* the handler coroutines waiting at an await
    qMsgs,         \* messages received so far; a forwarded quiz is named
                   \* by the number of its message
    qSince,        \* history, per user: the quizzes forwarded since the
                   \* user's last /finish that found a batch
    qReplies       \* history, per user: the replies delivered, in order

dvars == <<nq, pc, i, q_index, sent_count, error_count, retry_time, err, result,
           attempted, lastPolled, curPolls, curStatus, slept, nSent, nFailed,
           metered, polls, cooldowns, batchDelays,
           announced, progressSent, longPauses, batchesClosed, notifyFailed>>
cvars == <<csvPc, csvTotal, csvSeen, csvRow, csvOut, csvQuestions, csvReport>>
tvars == <<textPc, text, patIdx, questions, extracted_questions, candidates,
          matches, matchIdx>>
hvars == <<program, signalled, now, user_last_file_time, hPc, hStamp, hUser,
           hFile, hText,
           hCount, hResult, hPreview, hTrace>>
qvars == <<user_quiz_batches, clock, qTasks, qMsgs, qSince, qReplies>>
vars == <<dvars, cvars, tvars, hvars, qvars>>

----------------------------------------------------------------------------
(* Bounds of the model.                                                    *)

\* largest number of records handed to one dispatcher run
MaxN == 26

\* largest number of rows of one CSV file
MaxRows == 2

\* largest number of option cells of one CSV row
MaxCells == 12

----------------------------------------------------------------------------
(* General helpers.                                                        *)

Min(a, b) == IF a < b THEN a ELSE b

Range(s) == {s[k] : k \in 1..Len(s)}

\* a[:n] of Python for n >= 0
Take(s, n) == SubSeq(s, 1, Min(n, Len(s)))

----------------------------------------------------------------------------
(* send_paginated_quizzes, utils.py 163-260.                               *)

BATCH_SIZE == 5
SMALL_DELAY == 3
MEDIUM_DELAY == 10
LARGE_DELAY == 30

NoHint == -1
NoErr == [flood |-> FALSE, tooMany |-> FALSE, hint |-> NoHint, none |-> TRUE]
NoResult == <<-1, -1>>

\* The text of an exception raised by send_poll, reduced to what the handler
\* reads of it: whether it contains "Flood control", whether it contains
\* "Too Many Requests", and the number after "retry after" (NoHint when the
\* text has no such part).
HintValues == {NoHint, 1, 10}
ErrSignals == [flood : BOOLEAN, tooMany : BOOLEAN, hint : HintValues, none : {FALSE}]

\* line 211
IsRateLimited(e) == e.flood \/ e.tooMany

\* lines 212-219 without the 5 seconds added at line 217
RetryTime_noMargin(e) == IF e.hint # NoHint THEN e.hint ELSE MEDIUM_DELAY

\* lines 212-219
RetryTime(e) == IF e.hint # NoHint THEN e.hint + 5 ELSE MEDIUM_DELAY

\* CurRecord with the batch always cut from the head of the list
\* (batch = questions[:BATCH_SIZE])
CurRecord_headBatch == q_index + 1

\* the record `q` of the current iteration, as its 1-based position
CurRecord == i + q_index + 1

\* len(batch) for batch = questions[i:i+BATCH_SIZE]
BatchLen == Min(BATCH_SIZE, nq - i)

\* line 245 with <= for <
MoreBatches_inclusive == i + BATCH_SIZE <= nq

\* line 245
MoreBatches == i + BATCH_SIZE < nq

\* line 256 with the test on the batches already closed
LongPauseDue_countClosed == (i \div BATCH_SIZE) % 5 = 0

\* line 256
LongPauseDue == (i \div BATCH_SIZE) % 5 = 4

InitCsvIdle ==
    /\ csvPc = "idle" /\ csvTotal = 0 /\ csvSeen = 0 /\ csvRow = <<>>
    /\ csvOut = [kind |-> "none"] /\ csvQuestions = <<>>
    /\ csvReport = [kind |-> "none"]

InitTextIdle ==
    /\ textPc = "idle" /\ text = <<>> /\ patIdx = 0 /\ questions = <<>>
    /\ extracted_questions = {} /\ candidates = <<>>
    /\ matches = <<>> /\ matchIdx = 0

\* the coroutines that handle document messages, and the requesters
Handlers == {"h1", "h2"}
Users == {"u1", "u2"}

\* a key that is not in user_last_file_time
Absent == -1

\* no text extracted yet
NoText == [len |-> 0, blank |-> TRUE]

\* a key that is not in user_quiz_batches
NoBatch == [quizzes |-> <<>>, expires_at |-> -1]

\* no quiz forwarded and no /finish received yet (handlers.py 18 of Bot 0.2)
InitQuizIdle ==
    /\ user_quiz_batches = [u \in Users |-> NoBatch]
    /\ clock = 0
    /\ qTasks = {}
    /\ qMsgs = 0
    /\ qSince = [u \in Users |-> <<>>]
    /\ qReplies = [u \in Users |-> <<>>]

\* no document message received yet
InitDocIdle ==
    /\ program = "none" /\ now = 0 /\ signalled = FALSE
    /\ user_last_file_time = [u \in Users |-> Absent]
    /\ hPc = [h \in Handlers |-> "idle"]
    /\ hStamp = [h \in Handlers |-> Absent]
    /\ hUser = [h \in Handlers |-> "u1"]
    /\ hFile = [h \in Handlers |-> "none"]
    /\ hText = [h \in Handlers |-> NoText]
    /\ hCount = [h \in Handlers |-> 0]
    /\ hResult = [h \in Handlers |-> <<>>]
    /\ hPreview = [h \in Handlers |-> 0]
    /\ hTrace = [h \in Handlers |-> <<>>]

\* InitDispatch without the announcement of line 179
InitDispatch_unannounced ==
    /\ nq \in 1..MaxN
    /\ pc = "send_poll"
    /\ i = 0 /\ q_index = 0
    /\ sent_count = 0 /\ error_count = 0
    /\ retry_time = 0 /\ err = NoErr /\ result = NoResult
    /\ attempted = {} /\ lastPolled = 0 /\ curPolls = 0 /\ curStatus = "none"
    /\ slept = 0 /\ nSent = 0 /\ nFailed = 0
    /\ metered = FALSE /\ polls = 0 /\ cooldowns = 0 /\ batchDelays = 0
    /\ announced = 0 /\ progressSent = 0 /\ longPauses = 0
    /\ batchesClosed = 0 /\ notifyFailed = FALSE

\* lines 175-176 and the caller's `if questions:` (handlers.py 163, 202)
InitDispatch ==
    /\ nq \in 1..MaxN
    /\ pc = "announce"
    /\ i = 0 /\ q_index = 0
    /\ sent_count = 0 /\ error_count = 0
    /\ retry_time = 0 /\ err = NoErr /\ result = NoResult
    /\ attempted = {} /\ lastPolled = 0 /\ curPolls = 0 /\ curStatus = "none"
    /\ slept = 0 /\ nSent = 0 /\ nFailed = 0
    /\ metered = FALSE /\ polls = 0 /\ cooldowns = 0 /\ batchDelays = 0
    /\ announced = 0 /\ progressSent = 0 /\ longPauses = 0
    /\ batchesClosed = 0 /\ notifyFailed = FALSE

Init == InitDispatch /\ InitCsvIdle /\ InitTextIdle /\ InitDocIdle
            /\ InitQuizIdle

\* one more call or sleep on a counter of a metered run; the other runs
\* leave their counters at 0
Count(n) == IF metered THEN n + 1 ELSE n

counters == <<sent_count, error_count>>
loopvars == <<nq, i, q_index>>
pollhist == <<attempted, lastPolled, curPolls, curStatus, nSent, nFailed, polls>>
meters == <<metered, cooldowns, batchDelays>>
notehist == <<announced, progressSent, longPauses>>

\* A send_message call raised: none of them is inside a try block, the
\* exception leaves send_paginated_quizzes (lines 179, 221, 247, 257).
Propagate ==
    /\ pc' = "raised"
    /\ notifyFailed' = TRUE
    /\ UNCHANGED <<loopvars, counters, retry_time, err, result, pollhist, slept,
                   meters,
                   notehist, batchesClosed>>

\* line 260
Return ==
    /\ pc' = "done"
    /\ result' = <<sent_count', error_count'>>

\* The end of one iteration of the inner loop (line 192): the next record
\* of the batch, or the code after the inner loop (line 245), where the
\* last batch leaves the outer loop and returns.
AfterRecord ==
    IF q_index + 1 < BatchLen
    THEN /\ q_index' = q_index + 1
         /\ pc' = "send_poll"
         /\ UNCHANGED <<nq, i, result, batchesClosed>>
    ELSE IF MoreBatches
         THEN /\ pc' = "progress"
              /\ UNCHANGED <<nq, i, q_index, result, batchesClosed>>
         ELSE /\ Return
              /\ batchesClosed' = batchesClosed + 1
              /\ UNCHANGED <<nq, i, q_index>>

\* The end of one iteration of the outer loop (line 188), reached only
\* inside `if i + BATCH_SIZE < len(questions)`: there is a next batch.
NextBatch ==
    /\ i' = i + BATCH_SIZE
    /\ q_index' = 0
    /\ pc' = "send_poll"
    /\ batchesClosed' = batchesClosed + 1
    /\ UNCHANGED <<nq, result>>

\* line 179
Announce ==
    /\ pc = "announce"
    /\ \/ /\ announced' = announced + 1
          /\ pc' = "send_poll"
          /\ UNCHANGED <<loopvars, counters, retry_time, err, result, pollhist,
                         slept, meters, progressSent, longPauses, batchesClosed,
                         notifyFailed>>
       \/ Propagate

\* What a send_poll call for record r that ended with `outcome` leaves in
\* the history: the status of a record is the outcome of its latest call,
\* and a record is tallied in nSent or nFailed once the calls move on to
\* another record.
Polled(r, outcome) ==
    /\ attempted' = attempted \cup {r}
    /\ lastPolled' = r
    /\ curPolls' = IF r = lastPolled THEN curPolls + 1 ELSE 1
    /\ curStatus' = outcome
    /\ nSent' = IF r # lastPolled /\ curStatus = "sent" THEN nSent + 1 ELSE nSent
    /\ nFailed' = IF r # lastPolled /\ curStatus = "failed" THEN nFailed + 1 ELSE nFailed
    /\ polls' = Count(polls)
    /\ slept' = 0
    /\ UNCHANGED meters

\* lines 194-202: send_poll returns
SendPollOk ==
    /\ pc = "send_poll"
    /\ Polled(CurRecord, "sent")
    /\ sent_count' = sent_count + 1
    /\ pc' = "pace"
    /\ UNCHANGED <<loopvars, error_count, retry_time, err, result,
                   notehist, batchesClosed, notifyFailed>>

\* lines 205-208 without the increment of line 206
SendPollFail_uncounted ==
    /\ pc = "send_poll"
    /\ \E e \in ErrSignals : err' = e
    /\ Polled(CurRecord, "failed")
    /\ pc' = "except"
    /\ UNCHANGED <<loopvars, counters, retry_time, result,
                   notehist, batchesClosed, notifyFailed>>

\* lines 205-208: send_poll raises e
SendPollFail ==
    /\ pc = "send_poll"
    /\ \E e \in ErrSignals : err' = e
    /\ Polled(CurRecord, "failed")
    /\ error_count' = error_count + 1
    /\ pc' = "except"
    /\ UNCHANGED <<loopvars, sent_count, retry_time, result,
                   notehist, batchesClosed, notifyFailed>>

\* lines 211-219: the test for a rate limit; the handler of any other
\* exception ends here and the inner loop goes on
Except ==
    /\ pc = "except"
    /\ UNCHANGED <<counters, pollhist, slept, meters, notehist, notifyFailed>>
    /\ IF IsRateLimited(err)
       THEN /\ retry_time' = RetryTime(err)
            /\ pc' = "notify_wait"
            /\ UNCHANGED <<loopvars, err, result, batchesClosed>>
       ELSE /\ err' = NoErr
            /\ UNCHANGED retry_time
            /\ AfterRecord

\* lines 203 and 240: asyncio.sleep(SMALL_DELAY), then the next record
Pace ==
    /\ pc = "pace"
    /\ slept' = slept + SMALL_DELAY
    /\ UNCHANGED meters
    /\ err' = NoErr
    /\ retry_time' = 0
    /\ UNCHANGED <<counters, pollhist, notehist, notifyFailed>>
    /\ AfterRecord

\* lines 221-224: the notice of the rate-limit pause
NotifyWait ==
    /\ pc = "notify_wait"
    /\ \/ /\ pc' = "wait"
          /\ UNCHANGED <<loopvars, counters, retry_time, err, result, pollhist,
                         slept, meters, notehist, batchesClosed, notifyFailed>>
       \/ Propagate

\* line 226: asyncio.sleep(retry_time)
Wait ==
    /\ pc = "wait"
    /\ slept' = slept + retry_time
    /\ cooldowns' = Count(cooldowns)
    /\ UNCHANGED <<metered, batchDelays>>
    /\ pc' = "retry"
    /\ UNCHANGED <<loopvars, counters, retry_time, err, result, pollhist,
                   notehist, batchesClosed, notifyFailed>>

\* RetryOk without line 239 (error_count -= 1)
RetryOk_noReverse ==
    /\ pc = "retry"
    /\ Polled(CurRecord, "sent")
    /\ sent_count' = sent_count + 1
    /\ pc' = "pace"
    /\ UNCHANGED <<loopvars, error_count, retry_time, err, result, notehist,
                   batchesClosed, notifyFailed>>

\* lines 229-239: the retry returns
RetryOk ==
    /\ pc = "retry"
    /\ Polled(CurRecord, "sent")
    /\ sent_count' = sent_count + 1
    /\ error_count' = error_count - 1
    /\ pc' = "pace"
    /\ UNCHANGED <<loopvars, retry_time, err, result, notehist, batchesClosed,
                   notifyFailed>>

\* RetryFail without the try block of lines 229-242: the exception of
\* the retry leaves the function
RetryFail_unguarded ==
    /\ pc = "retry"
    /\ Polled(CurRecord, "failed")
    /\ pc' = "raised"
    /\ UNCHANGED <<loopvars, counters, retry_time, err, result, notehist,
                   batchesClosed, notifyFailed>>

\* RetryFail with the failed retry handled like the first failure: the
\* notice, the cooldown and another call
RetryFail_retryAgain ==
    /\ pc = "retry"
    /\ Polled(CurRecord, "failed")
    /\ pc' = "notify_wait"
    /\ UNCHANGED <<loopvars, counters, retry_time, err, result, notehist,
                   batchesClosed, notifyFailed>>

\* lines 241-242: the retry raises
RetryFail ==
    /\ pc = "retry"
    /\ Polled(CurRecord, "failed")
    /\ err' = NoErr
    /\ retry_time' = 0
    /\ UNCHANGED <<counters, notehist, notifyFailed>>
    /\ AfterRecord

\* line 246: the figure of the progress message
ProgressFigure == i + BATCH_SIZE

\* lines 245-250: the batch progress message
Progress ==
    /\ pc = "progress"
    /\ \/ /\ progressSent' = progressSent + 1
          /\ pc' = "batch_delay"
          /\ UNCHANGED <<loopvars, counters, retry_time, err, result, pollhist,
                         slept, meters, announced, longPauses, batchesClosed,
                         notifyFailed>>
       \/ Propagate

\* lines 253-256: asyncio.sleep(MEDIUM_DELAY), then the test of line 256
BatchDelay ==
    /\ pc = "batch_delay"
    /\ slept' = slept + MEDIUM_DELAY
    /\ batchDelays' = Count(batchDelays)
    /\ UNCHANGED <<metered, cooldowns>>
    /\ UNCHANGED <<counters, retry_time, err, pollhist, notehist, notifyFailed>>
    /\ IF LongPauseDue
       THEN /\ pc' = "notify_long"
            /\ UNCHANGED <<loopvars, result, batchesClosed>>
       ELSE NextBatch

\* line 257: the notice of the extended pause
NotifyLong ==
    /\ pc = "notify_long"
    /\ \/ /\ longPauses' = longPauses + 1
          /\ pc' = "long_delay"
          /\ UNCHANGED <<loopvars, counters, retry_time, err, result, pollhist,
                         slept, meters, announced, progressSent, batchesClosed,
                         notifyFailed>>
       \/ Propagate

\* line 258 sleeping like line 253
LongDelay_medium ==
    /\ pc = "long_delay"
    /\ slept' = slept + MEDIUM_DELAY
    /\ batchDelays' = Count(batchDelays)
    /\ UNCHANGED <<metered, cooldowns>>
    /\ UNCHANGED <<counters, retry_time, err, pollhist, notehist, notifyFailed>>
    /\ NextBatch

\* line 258: asyncio.sleep(LARGE_DELAY)
LongDelay ==
    /\ pc = "long_delay"
    /\ slept' = slept + LARGE_DELAY
    /\ UNCHANGED meters
    /\ UNCHANGED <<counters, retry_time, err, pollhist, notehist, notifyFailed>>
    /\ NextBatch

\* one run of send_paginated_quizzes; the other components stand still
Next ==
    \/ Announce /\ UNCHANGED <<cvars, tvars, hvars, qvars>>
    \/ SendPollOk /\ UNCHANGED <<cvars, tvars, hvars, qvars>>
    \/ SendPollFail /\ UNCHANGED <<cvars, tvars, hvars, qvars>>
    \/ Except /\ UNCHANGED <<cvars, tvars, hvars, qvars>>
    \/ Pace /\ UNCHANGED <<cvars, tvars, hvars, qvars>>
    \/ NotifyWait /\ UNCHANGED <<cvars, tvars, hvars, qvars>>
    \/ Wait /\ UNCHANGED <<cvars, tvars, hvars, qvars>>
    \/ RetryOk /\ UNCHANGED <<cvars, tvars, hvars, qvars>>
    \/ RetryFail /\ UNCHANGED <<cvars, tvars, hvars, qvars>>
    \/ Progress /\ UNCHANGED <<cvars, tvars, hvars, qvars>>
    \/ BatchDelay /\ UNCHANGED <<cvars, tvars, hvars, qvars>>
    \/ NotifyLong /\ UNCHANGED <<cvars, tvars, hvars, qvars>>
    \/ LongDelay /\ UNCHANGED <<cvars, tvars, hvars, qvars>>

Spec == Init /\ [][Next]_vars

----------------------------------------------------------------------------
(* Properties of send_paginated_quizzes.                                   *)

CeilDiv(n, d) == (n + d - 1) \div d

\* the batch (0-based) that record r belongs to
BatchOf(r) == (r - 1) \div BATCH_SIZE

\* records whose latest send_poll call succeeded / failed
FinalSent == nSent + IF curStatus = "sent" THEN 1 ELSE 0
FinalFailed == nFailed + IF curStatus = "failed" THEN 1 ELSE 0

\* this step made a send_poll call
PollStep == pc \in {"send_poll", "retry"} /\ pc' # pc

\* C2: whatever the outcomes of the send_poll calls, the run is never ended
\* by one of them: it ends by an exception only after a send_message call
\* raised, it can always take a step until it ends, and when it returns
\* every record 1..nq has received a send_poll call and the returned pair
\* is (sent_count, error_count).
C2_PublishFailureNeverAborts ==
    /\ pc = "raised" => notifyFailed
    /\ pc \notin {"done", "raised"} => ENABLED Next
    /\ pc = "done" => /\ attempted = 1..nq
                      /\ result = <<sent_count, error_count>>

\* a run that returned although send_poll calls failed, some for good
C2_Witness ==
    /\ pc = "done" /\ ~notifyFailed
    /\ nq >= 6 /\ error_count >= 2 /\ sent_count >= 1 /\ curPolls = 2
    /\ curStatus = "failed"

\* C3: a failed send_poll call whose exception carries a hint of h seconds
\* is followed by a suspension of at least h seconds and then by exactly
\* one retry of the same record; no record receives a third call.
C3_HintedFailureRetriedOnce ==
    [][ /\ (pc = "except" /\ err.hint # NoHint) => pc' = "notify_wait"
        /\ (pc = "notify_wait" /\ err.hint # NoHint) => pc' = "wait"
        /\ (pc = "wait" /\ err.hint # NoHint) =>
               (pc' = "retry" /\ slept' >= err.hint)
        /\ pc = "retry" => (lastPolled' = lastPolled /\ curPolls' = 2)
        /\ curPolls' <= 2 ]_vars

\* C4: sent_count is the number of records whose latest send_poll call
\* succeeded and error_count the number of those whose latest call failed,
\* so a record sent by its retry counts once as sent and not as an error;
\* on return the two add up to nq and are the returned pair.
C4_TallyMatchesOutcomes ==
    /\ sent_count = FinalSent
    /\ error_count = FinalFailed
    /\ pc = "done" => /\ result = <<FinalSent, FinalFailed>>
                      /\ FinalSent + FinalFailed = nq

\* a run that returned, its last record sent by the retry, others failed
C4_Witness ==
    /\ pc = "done" /\ curPolls = 2 /\ curStatus = "sent"
    /\ error_count >= 2 /\ sent_count >= 2

\* C5: send_poll calls follow the order of the records: a call is for the
\* record of the previous call (its retry) or for the next one, and a call
\* for a record of batch b is made only when the b batches before it are
\* over, with their b progress messages, the extended-pause notices due
\* (one per five batches) and, for the first record of a batch, the
\* inter-batch delay (plus the extended cooldown after every fifth batch).
C5_PublishOrder ==
    [][ PollStep =>
          LET r == lastPolled'
              b == BatchOf(r)
          IN /\ r \in {lastPolled, lastPolled + 1}
             /\ r = lastPolled => pc = "retry"
             /\ batchesClosed = b
             /\ progressSent = b
             /\ longPauses = b \div 5
             /\ (b > 0 /\ r = BATCH_SIZE * b + 1 /\ r # lastPolled) =>
                   slept >= MEDIUM_DELAY +
                            (IF b % 5 = 0 THEN LARGE_DELAY ELSE 0) ]_vars

\* the retry of a record of the sixth batch, after an extended pause
C5_Witness ==
    /\ lastPolled > 5 * BATCH_SIZE /\ curPolls = 2 /\ longPauses = 1
    /\ batchesClosed = 5

\* C6: a run that returns has closed ceil(nq/5) batches and sent
\* ceil(nq/5) - 1 progress messages (3 batches, 2 messages and no extended
\* pause for nq = 12); the progress message comes after each full batch of
\* 5 that is not the last one, and the next batch starts after that
\* message and the inter-batch delay.
C6_BatchesAndProgress ==
    /\ pc = "done" => /\ batchesClosed = CeilDiv(nq, BATCH_SIZE)
                      /\ progressSent = CeilDiv(nq, BATCH_SIZE) - 1
                      /\ nq = 12 => /\ batchesClosed = 3
                                    /\ progressSent = 2
                                    /\ longPauses = 0
    /\ pc = "progress" => /\ lastPolled = BATCH_SIZE * (progressSent + 1)
                          /\ lastPolled < nq
    /\ pc = "batch_delay" => lastPolled = BATCH_SIZE * progressSent
    /\ (pc = "send_poll" /\ i > 0 /\ q_index = 0) =>
           /\ progressSent = i \div BATCH_SIZE
           /\ lastPolled = i
           /\ slept >= MEDIUM_DELAY

\* the run over 12 records has returned
C6_Witness ==
    /\ pc = "done" /\ nq = 12 /\ progressSent = 2 /\ batchesClosed = 3
    /\ longPauses = 0

\* C7: a send_message call that raises does not end the run.
C7_NotificationFailureIgnored ==
    notifyFailed => pc # "raised"

----------------------------------------------------------------------------
(* process_csv_file, handlers.py 96-177: the loop over the rows.           *)
(* A row is a sequence of cells and a cell a sequence of characters, each  *)
(* character a one-letter string; " " stands for the white space that      *)
(* str.strip removes.                                                      *)

\* the option appended at line 151, a text like any other
FillerOption == <<"f", "i", "l", "l">>

\* the white space of the model's alphabet: blank and line feed
White == {" ", "\n"}

RECURSIVE LStrip(_)
LStrip(s) == IF s # <<>> /\ Head(s) \in White THEN LStrip(Tail(s)) ELSE s

RECURSIVE RStrip(_)
RStrip(s) ==
    IF s # <<>> /\ s[Len(s)] \in White
    THEN RStrip(SubSeq(s, 1, Len(s) - 1)) ELSE s

\* str.strip()
Strip(s) == RStrip(LStrip(s))

\* list.index(x), 0-based, for a list that holds x
IndexOf(s, x) ==
    (CHOOSE k \in 1..Len(s) : s[k] = x /\ \A j \in 1..(k - 1) : s[j] # x) - 1

\* line 130: [opt.strip() for opt in row[1:-1] if opt.strip()]
RECURSIVE StrippedNonEmpty(_)
StrippedNonEmpty(cells) ==
    IF cells = <<>> THEN <<>>
    ELSE LET c == Strip(Head(cells))
         IN (IF c # <<>> THEN <<c>> ELSE <<>>) \o StrippedNonEmpty(Tail(cells))

Skip(why) == [kind |-> "skip", why |-> why]

\* lines 142-143
WithCorrect(options, correct_option) ==
    IF correct_option \notin Range(options)
    THEN Append(options, correct_option) ELSE options

\* lines 146-148
Trimmed(options) == IF Len(options) > 10 THEN Take(options, 10) ELSE options

\* lines 150-151 with the filler put in front
WithFiller_front(options) ==
    IF Len(options) < 2 THEN <<FillerOption>> \o options ELSE options

\* lines 150-151
WithFiller(options) ==
    IF Len(options) < 2 THEN Append(options, FillerOption) ELSE options

\* lines 153-157 with the index of the last occurrence for the first
Emit_lastIndex(question, options, correct_option) ==
    IF correct_option \in Range(options)
    THEN [kind |-> "record",
          rec |-> [question |-> question,
                   options |-> options,
                   correct_option_id |->
                      (CHOOSE k \in 1..Len(options) :
                          /\ options[k] = correct_option
                          /\ \A j \in (k + 1)..Len(options) :
                                options[j] # correct_option) - 1]]
    ELSE [kind |-> "error", why |-> "ValueError"]

\* lines 153-160: options.index raises ValueError when the correct option
\* is no longer in the list; the handler of line 159 logs it and the row
\* yields nothing
Emit(question, options, correct_option) ==
    IF correct_option \in Range(options)
    THEN [kind |-> "record",
          rec |-> [question |-> question,
                   options |-> options,
                   correct_option_id |-> IndexOf(options, correct_option)]]
    ELSE [kind |-> "error", why |-> "ValueError"]

\* lines 120-160: one iteration of `for i, row in enumerate(rows)`
RowResult(row) ==
    IF Len(row) < 2 THEN Skip("incomplete")
    ELSE LET question == Strip(row[1])
             options == StrippedNonEmpty(SubSeq(row, 2, Len(row) - 1))
             correct_option == Strip(row[Len(row)])
         IN IF question = <<>> THEN Skip("no question")
            ELSE IF correct_option = <<>> THEN Skip("no correct answer")
            ELSE IF Len(options) < 1 THEN Skip("not enough options")
            ELSE Emit(question,
                      WithFiller(Trimmed(WithCorrect(options, correct_option))),
                      correct_option)

\* ---- the rows the model feeds to the loop ----

OptionNames == <<"a", "b", "c", "d", "e", "g", "h", "j", "k", "m", "n", "p",
                 "r", "s", "t", "u">>

\* the cell holding the n-th option name
NameCell(n) == <<OptionNames[n]>>

QuestionCells == {<<>>, <<" ">>, <<" ", "Q", " ">>}
AnswerCells == {<<"B">>, <<"B", " ">>, <<>>, <<"D">>}

ShortOptionLists ==
    {<<>>, <<<<>>>>, <<<<" ">>, <<>>>>,
     <<<<"A">>>>, <<<<" ", "B">>>>, <<<<"A">>, <<>>>>,
     <<<<"A">>, <<"B">>>>, <<<<"B">>, <<"A">>, <<"B">>>>,
     <<<<"A">>, <<"B">>, <<"C">>>>}

ShortRows ==
    {<<>>} \cup {<<q>> : q \in QuestionCells}
           \cup {<<q, <<"A">>, <<"B">>>> : q \in QuestionCells}
           \* the only option and the answer are the filler's own text
           \cup {<<<<"Q">>, FillerOption, FillerOption>>}
           \cup {<<<<"Q">>>> \o o \o <<a>> :
                    o \in ShortOptionLists, a \in AnswerCells}

\* rows with MaxCells - 3 .. MaxCells distinct option cells, the answer the
\* first of them, the last of them, or a text that is none of them
LongRows ==
    UNION {{<<<<"Q">>>> \o [k \in 1..n |-> NameCell(k)] \o <<a>> :
                a \in {NameCell(1), NameCell(n), <<"D">>}} :
           n \in (MaxCells - 3)..MaxCells}

RowPool == ShortRows \cup LongRows

\* lines 106-118; an empty file is answered at line 111 before the loop
InitCsv ==
    /\ csvPc = "rows"
    /\ csvTotal \in 1..MaxRows
    /\ csvSeen = 0
    /\ csvRow = <<>>
    /\ csvOut = [kind |-> "none"]
    /\ csvQuestions = <<>>
    /\ csvReport = [kind |-> "none"]

\* lines 119-160: one iteration of the loop over the rows
CsvRowStep ==
    /\ csvPc = "rows"
    /\ csvSeen < csvTotal
    /\ \E row \in RowPool :
          /\ csvRow' = row
          /\ csvOut' = RowResult(row)
          /\ csvQuestions' = IF RowResult(row).kind = "record"
                             THEN Append(csvQuestions, RowResult(row).rec)
                             ELSE csvQuestions
    /\ csvSeen' = csvSeen + 1
    /\ UNCHANGED <<csvPc, csvTotal, csvReport>>

\* lines 163-164: the list goes to send_paginated_quizzes
CsvDispatch ==
    /\ csvPc = "rows"
    /\ csvSeen = csvTotal
    /\ csvQuestions # <<>>
    /\ csvPc' = "dispatch"
    /\ UNCHANGED <<csvTotal, csvSeen, csvRow, csvOut, csvQuestions, csvReport>>

\* lines 163-170: send_paginated_quizzes returns (sent_count, error_count),
\* which add up to the number of questions, and the reply gives the two
\* figures as sent and as skipped
CsvReport ==
    /\ csvPc = "dispatch"
    /\ \E sent_cnt \in 0..Len(csvQuestions) :
          csvReport' = [kind |-> "tally", sent |-> sent_cnt,
                        skipped |-> Len(csvQuestions) - sent_cnt]
    /\ csvPc' = "reported"
    /\ UNCHANGED <<csvTotal, csvSeen, csvRow, csvOut, csvQuestions>>

\* lines 163 and 175-177: send_paginated_quizzes raises (a send_message
\* call of its own failed) and the exception is logged and raised again
CsvRaise ==
    /\ csvPc = "dispatch"
    /\ csvPc' = "raised"
    /\ UNCHANGED <<csvTotal, csvSeen, csvRow, csvOut, csvQuestions, csvReport>>

\* lines 172-173: no valid question in the file
CsvNothing ==
    /\ csvPc = "rows"
    /\ csvSeen = csvTotal
    /\ csvQuestions = <<>>
    /\ csvPc' = "no_valid_questions"
    /\ csvReport' = [kind |-> "no_valid_questions"]
    /\ UNCHANGED <<csvTotal, csvSeen, csvRow, csvOut, csvQuestions>>

\* send_paginated_quizzes not running
InitDispatchIdle ==
    /\ nq = 0 /\ pc = "idle"
    /\ i = 0 /\ q_index = 0
    /\ sent_count = 0 /\ error_count = 0
    /\ retry_time = 0 /\ err = NoErr /\ result = NoResult
    /\ attempted = {} /\ lastPolled = 0 /\ curPolls = 0 /\ curStatus = "none"
    /\ slept = 0 /\ nSent = 0 /\ nFailed = 0
    /\ metered = FALSE /\ polls = 0 /\ cooldowns = 0 /\ batchDelays = 0
    /\ announced = 0 /\ progressSent = 0 /\ longPauses = 0
    /\ batchesClosed = 0 /\ notifyFailed = FALSE

NextCsv ==
    \/ CsvRowStep /\ UNCHANGED <<dvars, tvars, hvars, qvars>>
    \/ CsvDispatch /\ UNCHANGED <<dvars, tvars, hvars, qvars>>
    \/ CsvReport /\ UNCHANGED <<dvars, tvars, hvars, qvars>>
    \/ CsvRaise /\ UNCHANGED <<dvars, tvars, hvars, qvars>>
    \/ CsvNothing /\ UNCHANGED <<dvars, tvars, hvars, qvars>>

\* process_csv_file called, the other two functions not running
CsvInit == InitCsv /\ InitDispatchIdle /\ InitTextIdle /\ InitDocIdle
            /\ InitQuizIdle

SpecCsv == CsvInit /\ [][NextCsv]_vars

----------------------------------------------------------------------------
(* Properties of process_csv_file.                                         *)

\* the parts of the latest row as the claims name them
RowQuestion == Strip(csvRow[1])
RowAnswer == Strip(csvRow[Len(csvRow)])
RowCells == StrippedNonEmpty(SubSeq(csvRow, 2, Len(csvRow) - 1))
\* the non-empty option cells in order, the answer text added at the end
\* when it is not one of them
RowOptions == IF \E k \in 1..Len(RowCells) : RowCells[k] = RowAnswer
              THEN RowCells ELSE RowCells \o <<RowAnswer>>
RowUsable ==
    /\ csvSeen > 0 /\ Len(csvRow) >= 2
    /\ RowQuestion # <<>> /\ RowAnswer # <<>>

ExampleRow == <<<<"Q">>, <<"A">>, <<"B">>, <<"C">>, <<"B">>>>

\* C9 as stated: a row with a non-empty question, a non-empty answer and
\* at most 10 resulting options yields the record of its trimmed question,
\* its non-empty option cells with the answer appended when missing, and
\* the position of the answer.
C9_RowToRecord ==
    (RowUsable /\ Len(RowOptions) <= 10) =>
        /\ csvOut.kind = "record"
        /\ csvOut.rec.question = RowQuestion
        /\ csvOut.rec.options = RowOptions
        /\ csvOut.rec.options[csvOut.rec.correct_option_id + 1] = RowAnswer

\* C9 as amended: the same for a row with at least one non-empty option
\* cell, where a single resulting option is followed by the filler option;
\* a row without a non-empty option cell yields no record; the correct
\* index is the first position of the answer text; the row
\* ["Q","A","B","C","B"] yields {"Q", ["A","B","C"], 1}.
C9_RowToRecordAmended ==
    /\ (RowUsable /\ Len(RowOptions) <= 10 /\ Len(RowCells) >= 1) =>
          /\ csvOut.kind = "record"
          /\ csvOut.rec.question = RowQuestion
          /\ csvOut.rec.options =
                IF Len(RowOptions) = 1
                THEN RowOptions \o <<FillerOption>> ELSE RowOptions
          /\ csvOut.rec.options[csvOut.rec.correct_option_id + 1] = RowAnswer
          /\ \A k \in 1..csvOut.rec.correct_option_id :
                csvOut.rec.options[k] # RowAnswer
          /\ csvQuestions # <<>>
          /\ csvQuestions[Len(csvQuestions)] = csvOut.rec
    /\ (RowUsable /\ Len(RowCells) = 0) => csvOut.kind = "skip"
    /\ (csvSeen > 0 /\ csvRow = ExampleRow) =>
          csvOut = [kind |-> "record",
                    rec |-> [question |-> <<"Q">>,
                             options |-> <<<<"A">>, <<"B">>, <<"C">>>>,
                             correct_option_id |-> 1]]

\* the example row went through the loop and its record is in the list
C9_Witness ==
    /\ csvSeen > 0 /\ csvRow = ExampleRow /\ csvOut.kind = "record"
    /\ csvPc = "dispatch"

\* C10: a row with more than 10 options yields a record of 10 options that
\* holds the correct option at correct_option_id, also when the correct
\* option lay beyond the first 10.
C10_TruncationKeepsCorrect ==
    (RowUsable /\ Len(RowOptions) > 10) =>
        /\ csvOut.kind = "record"
        /\ Len(csvOut.rec.options) = 10
        /\ csvOut.rec.options[csvOut.rec.correct_option_id + 1] = RowAnswer

----------------------------------------------------------------------------
(* extract_questions_from_text, utils.py 47-161.                           *)
(* The text is a sequence of characters, each a one-letter string, "\n"    *)
(* the line feed. The expressions of lines 70-91 share one shape: group 1  *)
(* a number, an optional - or . and white space; group 2 lazy up to line   *)
(* feeds and a first marker M with its delimiter D; group 3 from that      *)
(* marker over one to five more M D at the start of a line, each followed  *)
(* lazily by any characters; then line feeds, a keyword KW, a colon, white *)
(* space, the answer token of class A (group 4) and a closing parenthesis  *)
(* P. They differ in M, D, a greedy white space after D, KW, A and P. The  *)
(* operators below compute what re.findall returns for such an expression  *)
(* under re.DOTALL: leftmost match first, the greedy and lazy quantifiers  *)
(* tried in the order of the backtracking matcher.                         *)

Digits == {"0", "1", "2", "3", "4", "5", "6", "7", "8", "9"}
Letters == <<"a", "b", "c", "d">>
Capitals == <<"A", "B", "C", "D">>
Numerals == <<"1", "2", "3", "4", "5", "6", "7", "8", "9">>
\* stand-ins for letters of the range أ-ي
ArabicLetters == {"alef", "beh", "jeem"}
EnglishKeywords ==
    {<<"A", "n", "s", "w", "e", "r">>, <<"A", "n", "s", "w", "e", "r", "s">>}
\* the two keyword literals of lines 82 and 90 as the file stores them:
\* the bytes of the Arabic words read in another encoding, each literal
\* one stand-in character here
StoredArabicKeywords == {<<"line 82, first literal">>,
                         <<"line 82, second literal">>}

BlockPattern(marker, delim, ws, keywords, answer, paren) ==
    [shape |-> "block", marker |-> marker, delim |-> delim, ws |-> ws,
     keywords |-> keywords, answer |-> answer, paren |-> paren]

\* lines 68-98
patterns ==
    <<BlockPattern(Range(Letters), ")", FALSE, EnglishKeywords,
                   Range(Letters), "optional"),
      BlockPattern(Range(Letters), ")", FALSE, EnglishKeywords,
                   Range(Letters), "required"),
      BlockPattern(Range(Letters), ")", TRUE, EnglishKeywords,
                   Range(Letters), "optional"),
      BlockPattern(Range(Capitals), ")", FALSE, EnglishKeywords,
                   Range(Capitals), "none"),
      BlockPattern(ArabicLetters, ")", FALSE, StoredArabicKeywords,
                   ArabicLetters, "none"),
      BlockPattern(Range(Numerals), ")", FALSE, EnglishKeywords,
                   Range(Numerals), "none"),
      BlockPattern(Range(Letters), ".", TRUE, EnglishKeywords,
                   Range(Letters), "none"),
      BlockPattern(Range(Capitals), ".", TRUE, EnglishKeywords,
                   Range(Capitals), "none"),
      BlockPattern(ArabicLetters, ".", TRUE, StoredArabicKeywords,
                   ArabicLetters, "none"),
      BlockPattern(Range(Numerals), ".", TRUE, EnglishKeywords,
                   Range(Numerals), "none"),
      \* line 94: three groups, so match[3] at line 120, 126, 130 or 135
      \* raises IndexError for every match and line 157 drops it
      [shape |-> "choice"],
      \* line 97: match[2] is one letter, so the list of line 119 or 125 is
      \* empty and no index passes line 144
      [shape |-> "dash"]>>

\* the character at position p, "" beyond the ends
Ch(t, p) == IF p >= 1 /\ p <= Len(t) THEN t[p] ELSE ""

\* \s* from p: the first position that holds no white space
RECURSIVE WsEnd(_, _)
WsEnd(t, p) == IF Ch(t, p) \in White THEN WsEnd(t, p + 1) ELSE p

\* \n* from p
RECURSIVE NlEnd(_, _)
NlEnd(t, p) == IF Ch(t, p) = "\n" THEN NlEnd(t, p + 1) ELSE p

\* \d* from p
RECURSIVE DigitsEnd(_, _)
DigitsEnd(t, p) == IF Ch(t, p) \in Digits THEN DigitsEnd(t, p + 1) ELSE p

\* \n M D matches at p
MarkerAt(t, p, pat) ==
    Ch(t, p) = "\n" /\ Ch(t, p + 1) \in pat.marker /\ Ch(t, p + 2) = pat.delim

\* \n+ M D matches at p: the position of M, else 0
MarkerRun(t, p, pat) ==
    IF /\ Ch(t, p) = "\n"
       /\ Ch(t, NlEnd(t, p)) \in pat.marker
       /\ Ch(t, NlEnd(t, p) + 1) = pat.delim
    THEN NlEnd(t, p) ELSE 0

HasPrefix(t, a, kw) == \A j \in 1..Len(kw) : Ch(t, a + j - 1) = kw[j]

\* KW: matches at a: the position after the colon, else 0
AfterKeyword(t, a, pat) ==
    LET fits(kw) == HasPrefix(t, a, kw) /\ Ch(t, a + Len(kw)) = ":"
    IN IF \E kw \in pat.keywords : fits(kw)
       THEN a + Len(CHOOSE kw \in pat.keywords : fits(kw)) + 1
       ELSE 0

\* \n+KW:\s*(A) P at p: the answer token and the position after the match
Answer(t, p, pat) ==
    LET c == AfterKeyword(t, NlEnd(t, p), pat)
        b == WsEnd(t, c)
        closed == Ch(t, b + 1) = ")"
    IN IF /\ Ch(t, p) = "\n" /\ c # 0 /\ Ch(t, b) \in pat.answer
          /\ (pat.paren = "required" => closed)
       THEN [ok |-> TRUE, token |-> Ch(t, b),
             end |-> IF pat.paren # "none" /\ closed THEN b + 2 ELSE b + 1]
       ELSE [ok |-> FALSE]

\* the last position where the answer line matches, 0 when it never does
LastAnswer(t, pat) ==
    LET S == {u \in 1..Len(t) : Answer(t, u, pat).ok}
    IN IF S = {} THEN 0 ELSE CHOOSE u \in S : \A v \in S : v <= u

\* the least element of a set of positions, 0 for the empty set
First(S) == IF S = {} THEN 0 ELSE CHOOSE x \in S : \A y \in S : x <= y

\* the first line feed at or after u, Len(t) + 1 when there is none; a
\* marker line and an answer line begin at a line feed
NextLineFeed(t, u) ==
    LET S == {v \in u..Len(t) : t[v] = "\n"}
    IN IF S = {} THEN Len(t) + 1 ELSE First(S)

\* The option group from the position after the k-th marker: the position
\* where the answer line that ends the match begins, 0 when there is none.
\* The lazy .*? grows one character at a time from the end of the greedy
\* \s* (SearchUp); at each position one more \n M D is tried first (at
\* most five in all, and it succeeds when an answer line follows it), then
\* the answer line; when all fail the \s* gives back its characters one
\* by one (SearchDown). last is LastAnswer.
RECURSIVE Search(_, _, _, _, _)
RECURSIVE SearchUp(_, _, _, _, _, _)
RECURSIVE SearchDown(_, _, _, _, _, _)
Search(t, pos, k, pat, last) ==
    SearchUp(t, IF pat.ws THEN WsEnd(t, pos) ELSE pos, pos, k, pat, last)
SearchUp(t, u, pos, k, pat, last) ==
    IF u > last
    THEN SearchDown(t, (IF pat.ws THEN WsEnd(t, pos) ELSE pos) - 1,
                    pos, k, pat, last)
    ELSE IF k <= 5 /\ MarkerAt(t, u, pat) /\ u + 3 <= last
    THEN Search(t, u + 3, k + 1, pat, last)
    ELSE IF k >= 2 /\ Answer(t, u, pat).ok THEN u
    ELSE SearchUp(t, NextLineFeed(t, u + 1), pos, k, pat, last)
SearchDown(t, u, pos, k, pat, last) ==
    IF u < pos THEN 0
    ELSE IF k <= 5 /\ MarkerAt(t, u, pat) /\ u + 3 <= last
    THEN Search(t, u + 3, k + 1, pat, last)
    ELSE IF k >= 2 /\ Answer(t, u, pat).ok THEN u
    ELSE SearchDown(t, u - 1, pos, k, pat, last)

\* the greedy end of group 1 for a match that starts at the digit at s
G1Max(t, s) ==
    LET d == DigitsEnd(t, s)
    IN WsEnd(t, IF Ch(t, d) \in {"-", "."} THEN d + 1 ELSE d)

\* the first position at or after p where \n+ M D matches, 0 when none
FirstMarkerRun(t, p, pat) ==
    First({v \in p..Len(t) : MarkerRun(t, v, pat) # 0})

\* The match that starts at s with group 1 ending before e or, when that
\* fails, before an earlier position: group 2 grows to the first \n+ M D
\* from which the rest matches (if the first one found has no rest, no
\* later one has).
RECURSIVE MatchFrom(_, _, _, _, _)
MatchFrom(t, s, e, pat, last) ==
    IF e <= s THEN [ok |-> FALSE]
    ELSE LET p == FirstMarkerRun(t, e, pat)
             q == MarkerRun(t, p, pat)
             pa == IF p = 0 THEN 0 ELSE Search(t, q + 2, 1, pat, last)
         IN IF pa = 0 THEN MatchFrom(t, s, e - 1, pat, last)
            ELSE [ok |-> TRUE,
                  groups |-> <<SubSeq(t, s, e - 1), SubSeq(t, e, p - 1),
                               SubSeq(t, q, pa - 1),
                               <<Answer(t, pa, pat).token>>>>,
                  end |-> Answer(t, pa, pat).end]

\* line 102: re.findall(pattern, text, re.DOTALL) from position pos, the
\* list of the group tuples of the successive non-overlapping matches
RECURSIVE FindAll(_, _, _, _)
FindAll(t, pos, pat, last) ==
    LET s == First({v \in pos..Len(t) : t[v] \in Digits})
        m == MatchFrom(t, s, G1Max(t, s), pat, last)
    IN IF s = 0 THEN <<>>
       ELSE IF m.ok THEN <<m.groups>> \o FindAll(t, m.end, pat, last)
       ELSE FindAll(t, s + 1, pat, last)

\* the first position at or after x that holds a marker of cls and ")"
FirstOption(o, x, cls) ==
    First({v \in x..Len(o) : o[v] \in cls /\ Ch(o, v + 1) = ")"})

\* the first position at or after x where the lookahead of lines 119-134
\* holds: \n M ) follows, or the text ends
OptionEnd(o, x, cls) ==
    First({v \in x..(Len(o) + 1) :
              \/ v > Len(o)
              \/ Ch(o, v) = "\n" /\ Ch(o, v + 1) \in cls /\ Ch(o, v + 2) = ")"
              \/ v = Len(o) /\ o[v] = "\n"})

\* lines 119/125/134 and 138-141: the stripped second groups of
\* re.findall over the option block, from position pos
RECURSIVE OptionTexts(_, _, _)
OptionTexts(o, pos, cls) ==
    LET a == FirstOption(o, pos, cls)
        b == WsEnd(o, a + 2)
        x == OptionEnd(o, b, cls)
    IN IF a = 0 THEN <<>>
       ELSE <<Strip(SubSeq(o, b, x - 1))>> \o OptionTexts(o, x, cls)

\* line 58: re.sub(r'\n{3,}', '\n\n', text) from position p: the text up to
\* the first two of the next three line feeds in a row, then the text
\* after that run of line feeds
RECURSIVE Collapse(_, _)
Collapse(t, p) ==
    LET r == First({v \in p..Len(t) :
                      t[v] = "\n" /\ Ch(t, v + 1) = "\n" /\ Ch(t, v + 2) = "\n"})
    IN IF r = 0 THEN SubSeq(t, p, Len(t))
       ELSE SubSeq(t, p, r + 1) \o Collapse(t, NlEnd(t, r))

\* str.find: the 0-based position of c in s, -1 when absent
PosIn(s, c) ==
    IF \E k \in 1..Len(s) : s[k] = c
    THEN (CHOOSE k \in 1..Len(s) : s[k] = c) - 1 ELSE -1

\* str.lower and str.upper on one character
ToLower(c) == IF PosIn(Capitals, c) >= 0 THEN Letters[PosIn(Capitals, c) + 1] ELSE c
ToUpper(c) == IF PosIn(Letters, c) >= 0 THEN Capitals[PosIn(Letters, c) + 1] ELSE c

\* length of the question id, line 146
QUESTION_ID_LEN == 50

\* line 146 with the whole text as the id
QuestionId_whole(question_text) == question_text

\* line 146: question_text[:50]
QuestionId(question_text) == Take(question_text, QUESTION_ID_LEN)

\* Lines 107-141 for one match of a block pattern. The token of group 4
\* is in the class of the markers, so ord(token) - ord('a') is its
\* position among a-d (A-D for the capitals). No character of the model
\* is in the literal of line 128, whose branch is never taken; a marker
\* that is neither a-d nor A-D reaches line 134, where int() raises for a
\* token that is no digit.
Candidate(g) ==
    LET question_num == Strip(g[1])
        question_text == IF question_num # <<>>
                         THEN question_num \o <<" ">> \o Strip(g[2])
                         ELSE Strip(g[2])
        options_text == Strip(g[3])
        token == g[4][1]
        lower == options_text[1] \in Range(Letters)
        upper == options_text[1] \in Range(Capitals)
    IN [question |-> question_text,
        options |-> OptionTexts(options_text, 1,
                                IF lower THEN Range(Letters)
                                ELSE IF upper THEN Range(Capitals)
                                ELSE Range(Numerals)),
        correct_option_id |-> IF lower THEN PosIn(Letters, ToLower(token))
                              ELSE IF upper THEN PosIn(Capitals, ToUpper(token))
                              ELSE PosIn(Numerals, token),
        raised |-> ~lower /\ ~upper /\ token \notin Digits]

Record(c) == [question |-> c.question, options |-> c.options,
              correct_option_id |-> c.correct_option_id]

\* the loop of lines 105-159 without the membership test of line 147
RECURSIVE Visit_noDedup(_, _)
Visit_noDedup(ms, acc) ==
    IF ms = <<>> THEN acc
    ELSE LET c == Candidate(Head(ms))
         IN Visit_noDedup(Tail(ms),
                  IF c.raised \/ ~(0 <= c.correct_option_id
                                   /\ c.correct_option_id < Len(c.options))
                  THEN acc
                  ELSE [questions |-> Append(acc.questions, Record(c)),
                        extracted_questions |->
                           acc.extracted_questions \cup {QuestionId(c.question)},
                        candidates |-> Append(acc.candidates, Record(c))])

\* the loop of lines 105-159 with a later match replacing the record that
\* has its question id
RECURSIVE Visit_keepLast(_, _)
Visit_keepLast(ms, acc) ==
    IF ms = <<>> THEN acc
    ELSE LET c == Candidate(Head(ms))
             question_id == QuestionId(c.question)
         IN Visit_keepLast(Tail(ms),
                  IF c.raised \/ ~(0 <= c.correct_option_id
                                   /\ c.correct_option_id < Len(c.options))
                  THEN acc
                  ELSE [questions |->
                           IF question_id \notin acc.extracted_questions
                           THEN Append(acc.questions, Record(c))
                           ELSE [k \in 1..Len(acc.questions) |->
                                   IF QuestionId(acc.questions[k].question)
                                        = question_id
                                   THEN Record(c) ELSE acc.questions[k]],
                        extracted_questions |->
                           acc.extracted_questions \cup {question_id},
                        candidates |-> Append(acc.candidates, Record(c))])

\* lines 105-159: the loop over the matches ms of one pattern; acc holds
\* questions, extracted_questions and candidates
RECURSIVE Visit(_, _)
Visit(ms, acc) ==
    IF ms = <<>> THEN acc
    ELSE LET c == Candidate(Head(ms))
             question_id == QuestionId(c.question)
         IN Visit(Tail(ms),
                  IF c.raised \/ ~(0 <= c.correct_option_id
                                   /\ c.correct_option_id < Len(c.options))
                  THEN acc
                  ELSE [questions |->
                           IF question_id \notin acc.extracted_questions
                           THEN Append(acc.questions, Record(c))
                           ELSE acc.questions,
                        extracted_questions |->
                           acc.extracted_questions \cup {question_id},
                        candidates |-> Append(acc.candidates, Record(c))])

\* ---- the texts the model feeds to the function ----

\* largest number of option lines of one block of the text
MaxLines == 12

LowerParen == [alphabet |-> Letters, delim |-> ")"]
LowerDot == [alphabet |-> Letters, delim |-> "."]
UpperParen == [alphabet |-> Capitals, delim |-> ")"]
DigitParen == [alphabet |-> Numerals, delim |-> ")"]

\* a short question, and two long ones that differ only after the
\* QUESTION_ID_LEN-th character of "1. " followed by the question
Short == <<"Q">>
Stem == [k \in 1..(QUESTION_ID_LEN - 3) |-> "q"]
LongX == Stem \o <<"x">>
LongY == Stem \o <<"y">>

\* the marker of the k-th option line: the alphabet, repeated
MarkerOf(style, k) == style.alphabet[((k - 1) % Len(style.alphabet)) + 1]

\* the option lines from..k, each after a line feed
RECURSIVE OptionLines(_, _, _)
OptionLines(style, from, k) ==
    IF from > k THEN <<>>
    ELSE <<"\n", MarkerOf(style, from), style.delim, " ", OptionNames[from]>>
         \o OptionLines(style, from + 1, k)

AnswerLine(token) == <<"\n", "A", "n", "s", "w", "e", "r", ":", " ", token>>

\* a block: question line, k option lines, answer line naming marker a
MakeBlock(num, body, style, k, a) ==
    <<num, ".", " ">> \o body \o OptionLines(style, 1, k)
                      \o AnswerLine(MarkerOf(style, a))

RegularBlocks ==
    {MakeBlock("1", body, style, k, a) :
        body \in {Short, LongX},
        style \in {LowerParen, LowerDot, UpperParen, DigitParen},
        k \in {2, MaxLines - 2, MaxLines},
        a \in {1, 4}}

SpecialBlocks ==
    {\* the first option line holds its marker only
     <<"1", ".", " ", "Q", "\n", "a", ")", "\n", "b", ")", " ", "y">>
        \o AnswerLine("a"),
     \* the answer token is followed by a parenthesis
     MakeBlock("2", Short, LowerParen, 3, 2) \o <<")">>,
     \* Arabic markers and the Arabic keyword ("al-ijaba" stands for it)
     <<"3", ".", " ", "Q", "\n", "alef", ")", " ", "x",
       "\n", "beh", ")", " ", "y", "\n", "al-ijaba", ":", " ", "alef">>}

SecondBlocks ==
    {MakeBlock("1", LongY, LowerParen, 2, 1),
     MakeBlock("1", LongX, LowerParen, 2, 2),
     MakeBlock("2", Short, UpperParen, 3, 1)}

Separators == {<<"\n">>, <<"\n", "\n", "\n">>}

\* "1- What is 2+2?" with the options a) 3, b) 4, c) 5 and "Answer: b"
ExampleText ==
    <<"1", "-", " ", "W", "h", "a", "t", " ", "i", "s", " ", "2", "+", "2", "?",
      "\n", "a", ")", " ", "3", "\n", "b", ")", " ", "4",
      "\n", "c", ")", " ", "5">> \o AnswerLine("b")

\* the same block with "." after each option marker
ExampleDotText ==
    <<"1", "-", " ", "W", "h", "a", "t", " ", "i", "s", " ", "2", "+", "2", "?",
      "\n", "a", ".", " ", "3", "\n", "b", ".", " ", "4",
      "\n", "c", ".", " ", "5">> \o AnswerLine("b")

Texts ==
    RegularBlocks \cup SpecialBlocks \cup {ExampleText, ExampleDotText}
        \cup {b \o sep \o s : b \in RegularBlocks \cup SpecialBlocks,
                              sep \in Separators, s \in SecondBlocks}

\* the call extract_questions_from_text(text)
InitText ==
    /\ textPc = "start"
    /\ text \in Texts
    /\ patIdx = 0
    /\ questions = <<>>
    /\ extracted_questions = {}
    /\ candidates = <<>>
    /\ matches = <<>> /\ matchIdx = 0

\* lines 57-65
Clean ==
    /\ textPc = "start"
    /\ text' = Collapse(text, 1)
    /\ textPc' = "scan"
    /\ UNCHANGED <<patIdx, questions, extracted_questions, candidates,
                   matches, matchIdx>>

\* lines 101-159: one iteration of `for i, pattern in enumerate(patterns)`
PatternStep ==
    /\ textPc = "scan"
    /\ patIdx < Len(patterns)
    /\ LET pattern == patterns[patIdx + 1]
           before == [questions |-> questions,
                      extracted_questions |-> extracted_questions,
                      candidates |-> candidates]
           after == IF pattern.shape = "block"
                    THEN Visit(FindAll(text, 1, pattern,
                                       LastAnswer(text, pattern)), before)
                    ELSE before
       IN /\ questions' = after.questions
          /\ extracted_questions' = after.extracted_questions
          /\ candidates' = after.candidates
    /\ patIdx' = patIdx + 1
    /\ UNCHANGED <<textPc, text, matches, matchIdx>>

\* line 161
ReturnQuestions ==
    /\ textPc = "scan"
    /\ patIdx = Len(patterns)
    /\ textPc' = "returned"
    /\ UNCHANGED <<text, patIdx, questions, extracted_questions, candidates,
                   matches, matchIdx>>

NextText ==
    \/ Clean /\ UNCHANGED <<dvars, cvars, hvars, qvars>>
    \/ PatternStep /\ UNCHANGED <<dvars, cvars, hvars, qvars>>
    \/ ReturnQuestions /\ UNCHANGED <<dvars, cvars, hvars, qvars>>

\* extract_questions_from_text called, the other two functions not running
TextInit == InitText /\ InitDispatchIdle /\ InitCsvIdle /\ InitDocIdle
            /\ InitQuizIdle

SpecText == TextInit /\ [][NextText]_vars

----------------------------------------------------------------------------
(* Properties of the extracted records.                                    *)

WellFormed(rec) ==
    /\ 2 <= Len(rec.options) /\ Len(rec.options) <= 10
    /\ 0 <= rec.correct_option_id
    /\ rec.correct_option_id < Len(rec.options)

\* C1: every record of the list built by extract_questions_from_text and
\* of the list built by process_csv_file has between 2 and 10 options and
\* a correct_option_id that is a position of its option list.
C1_RecordsWellFormed ==
    /\ \A k \in 1..Len(questions) : WellFormed(questions[k])
    /\ \A k \in 1..Len(csvQuestions) : WellFormed(csvQuestions[k])

SameId(a, b) ==
    Take(a.question, QUESTION_ID_LEN) = Take(b.question, QUESTION_ID_LEN)

\* C8: no two records of the list share the first 50 characters of their
\* question text, and the matches that passed the range check and share
\* those 50 characters have exactly one record in the list.
C8_NoSharedQuestionId ==
    /\ \A j, k \in 1..Len(questions) :
          j # k => ~SameId(questions[j], questions[k])
    /\ \A c \in 1..Len(candidates) :
          Cardinality({k \in 1..Len(questions) :
                          SameId(questions[k], candidates[c])}) = 1

\* the function returned after two matches whose question texts differ
\* only beyond their 50th character passed the range check
C8_Witness ==
    /\ textPc = "returned"
    /\ \E j, k \in 1..Len(candidates) :
          /\ candidates[j].question # candidates[k].question
          /\ SameId(candidates[j], candidates[k])

\* the record the example text stands for
ExampleRecord ==
    [question |-> <<"1", "-", " ", "W", "h", "a", "t", " ", "i", "s", " ",
                    "2", "+", "2", "?">>,
     options |-> << <<"3">>, <<"4">>, <<"5">> >>,
     correct_option_id |-> 1]

\* C11: for the text "1- What is 2+2?" with the option lines a) 3, b) 4,
\* c) 5 and the line "Answer: b", the function returns exactly one record,
\* with options 3, 4, 5 and correct_option_id 1, although more than one
\* pattern matches the block.
C11_ExampleYieldsOneRecord ==
    (textPc = "returned" /\ text = ExampleText)
        => /\ questions = <<ExampleRecord>>
           /\ Len(candidates) >= 2

\* the function returned for the example text after two patterns matched it
C11_Witness ==
    /\ textPc = "returned"
    /\ text = ExampleText
    /\ Len(candidates) >= 2
    /\ Len(questions) = 1

----------------------------------------------------------------------------
(* The document handlers: handle_document, process_file and               *)
(* process_pdf_file of Bot 0.1, handle_pdf_file of Bot 0.2.  aiogram runs *)
(* one coroutine per incoming message; the coroutines interleave at their *)
(* awaits, so a step below runs from one await to the next.  The replies  *)
(* to the requester are taken to be delivered; bot.download and the       *)
(* dispatcher may raise.                                                   *)

\* config.py line 12 of Bot 0.1, line 10 of Bot 0.2
MIN_INTERVAL_BETWEEN_FILES == 60

\* handlers.py line 204: characters of the text shown in the excerpt
PREVIEW_LEN == 500

\* the instants at which the clock is read
Instants ==
    {0, MIN_INTERVAL_BETWEEN_FILES - 1, MIN_INTERVAL_BETWEEN_FILES,
     2 * MIN_INTERVAL_BETWEEN_FILES - 1, 2 * MIN_INTERVAL_BETWEEN_FILES}

\* message.document.file_name: missing, or with the extension named
Files == {"noname", "txt", "csv", "pdf"}

\* what extract_text_from_pdf returns: its length and whether
\* text.strip() is empty
DocTexts ==
    {[len |-> 0, blank |-> TRUE], [len |-> 2, blank |-> TRUE],
     [len |-> PREVIEW_LEN, blank |-> FALSE],
     [len |-> PREVIEW_LEN + 1, blank |-> FALSE]}

\* len(questions) of an extraction
RecordCounts == {0, 2}

\* what the call of send_paginated_quizzes on n records does: it returns
\* (sent_count, error_count), or a send_message call of it raises
DispatchOutcomes(n) ==
    {[kind |-> "returned", counts |-> <<n, 0>>],
     [kind |-> "returned", counts |-> <<n - 1, 1>>],
     [kind |-> "raised", counts |-> <<>>]}

\* what send_telegram_quizzes of Bot 0.2 returns on n records (lines 233-254
\* of its utils.py: every exception is caught inside the loop)
QuizOutcomes(n) == {<<n, 0>>, <<n - 1, 1>>}

\* the interval check with every requester's timestamp in place of the
\* requester's own
TooSoon_anyRequester(u, t) ==
    \E v \in Users :
        /\ user_last_file_time[v] # Absent
        /\ t - user_last_file_time[v] < MIN_INTERVAL_BETWEEN_FILES

\* lines 244-246 (Bot 0.1), 55-56 (Bot 0.2)
TooSoon(u, t) ==
    /\ user_last_file_time[u] # Absent
    /\ t - user_last_file_time[u] < MIN_INTERVAL_BETWEEN_FILES

\* line 204: extracted_text[:500] + "..." if longer than 500, else the text
Preview(len) == Min(len, PREVIEW_LEN)

hinput == <<hUser, hFile>>
hdata == <<hText, hCount, hResult, hPreview>>
gate == <<program, signalled, now, user_last_file_time, hStamp>>

\* the coroutine h moves to the await `next` after doing `events`
Go(h, next, events) ==
    /\ hPc' = [hPc EXCEPT ![h] = next]
    /\ hTrace' = [hTrace EXCEPT ![h] = @ \o events]

\* an await of h that sends one message to the requester
Say(h, at, event, next) ==
    /\ hPc[h] = at
    /\ Go(h, next, <<event>>)
    /\ UNCHANGED <<gate, hinput, hdata>>

\* the bot is started: one of the two programs runs
Start ==
    /\ program = "none"
    /\ program' \in {"Bot 0.1", "Bot 0.2"}
    /\ UNCHANGED <<signalled, now, user_last_file_time, hPc, hStamp, hTrace,
                   hinput, hdata>>

\* time passes
Tick ==
    /\ program # "none"
    /\ \E t \in Instants : t > now /\ now' = t
    /\ UNCHANGED <<program, signalled, user_last_file_time, hPc, hStamp, hTrace, hinput,
                   hdata>>

\* a document message of requester u arrives and a coroutine is created
\* for it (main.py 25-27 of Bot 0.1, 26 of Bot 0.2)
Arrive(h, u, f) ==
    /\ program # "none"
    /\ hPc[h] = "idle"
    /\ hPc' = [hPc EXCEPT ![h] = "arrived"]
    /\ hUser' = [hUser EXCEPT ![h] = u]
    /\ hFile' = [hFile EXCEPT ![h] = f]
    /\ hText' = [hText EXCEPT ![h] = NoText]
    /\ hCount' = [hCount EXCEPT ![h] = 0]
    /\ hResult' = [hResult EXCEPT ![h] = <<>>]
    /\ hPreview' = [hPreview EXCEPT ![h] = 0]
    /\ hTrace' = [hTrace EXCEPT ![h] = <<>>]
    /\ UNCHANGED gate

\* ---- Bot 0.1 ----

\* lines 240-271 with a suspension between the test of line 244 and the
\* assignment of line 252
HandleDocument_suspended(h) ==
    /\ program = "Bot 0.1"
    /\ \/ /\ hPc[h] = "arrived"
          /\ Go(h, IF TooSoon(hUser[h], now) THEN "reply_wait"
                   ELSE "gate_passed", <<>>)
          /\ UNCHANGED <<user_last_file_time, hStamp>>
       \/ /\ hPc[h] = "gate_passed"
          /\ user_last_file_time' =
                 [user_last_file_time EXCEPT ![hUser[h]] = now]
          /\ hStamp' = [hStamp EXCEPT ![h] = now]
          /\ Go(h, IF hFile[h] = "noname" THEN "reply_noname"
                   ELSE IF hFile[h] \notin {"csv", "pdf"} THEN "reply_ext"
                   ELSE "download",
                <<"stamp">>)
    /\ UNCHANGED <<program, signalled, now, hinput, hdata>>

\* handle_document with the assignment of line 252 moved behind the tests
\* of lines 259 and 265
HandleDocument_stampValid(h) ==
    /\ program = "Bot 0.1"
    /\ hPc[h] = "arrived"
    /\ IF TooSoon(hUser[h], now)
       THEN /\ Go(h, "reply_wait", <<>>)
            /\ UNCHANGED <<user_last_file_time, hStamp>>
       ELSE IF hFile[h] \notin {"csv", "pdf"}
       THEN /\ Go(h, IF hFile[h] = "noname" THEN "reply_noname"
                     ELSE "reply_ext", <<>>)
            /\ UNCHANGED <<user_last_file_time, hStamp>>
       ELSE /\ user_last_file_time' =
                  [user_last_file_time EXCEPT ![hUser[h]] = now]
            /\ hStamp' = [hStamp EXCEPT ![h] = now]
            /\ Go(h, "download", <<"stamp">>)
    /\ UNCHANGED <<program, signalled, now, hinput, hdata>>

\* handle_document, lines 240-271, up to its first await
HandleDocument(h) ==
    /\ program = "Bot 0.1"
    /\ hPc[h] = "arrived"
    /\ IF TooSoon(hUser[h], now)
       THEN /\ Go(h, "reply_wait", <<>>)
            /\ UNCHANGED <<user_last_file_time, hStamp>>
       ELSE /\ user_last_file_time' =
                  [user_last_file_time EXCEPT ![hUser[h]] = now]
            /\ hStamp' = [hStamp EXCEPT ![h] = now]
            /\ Go(h, IF hFile[h] = "noname" THEN "reply_noname"
                     ELSE IF hFile[h] \notin {"csv", "pdf"} THEN "reply_ext"
                     ELSE "download",
                  <<"stamp">>)
    /\ UNCHANGED <<program, signalled, now, hinput, hdata>>

\* line 247 (Bot 0.1), line 57 (Bot 0.2), then return
ReplyWait(h) == Say(h, "reply_wait", "wait_notice", "done")

\* line 260
ReplyNoName(h) == Say(h, "reply_noname", "invalid_file", "done")

\* line 266 (Bot 0.1), line 64 (Bot 0.2)
ReplyExtension(h) == Say(h, "reply_ext", "invalid_file", "done")

\* line 271: the download, which may raise (handler of line 277)
Download(h) ==
    /\ hPc[h] = "download"
    /\ \/ Go(h, "answer_received", <<"download">>)
       \/ Go(h, "log_error", <<"download">>)
    /\ UNCHANGED <<gate, hinput, hdata>>

\* process_file line 69; for a CSV file process_csv_file then reads the
\* rows and builds its list (lines 105-160) up to its first await
AnswerReceived(h) ==
    /\ hPc[h] = "answer_received"
    /\ IF hFile[h] = "csv"
       THEN \E n \in RecordCounts :
               /\ hCount' = [hCount EXCEPT ![h] = n]
               /\ Go(h, IF n = 0 THEN "reply_csv_none" ELSE "dispatch",
                     <<"received", "parse">>)
       ELSE /\ Go(h, "extract_text", <<"received">>)
            /\ UNCHANGED hCount
    /\ UNCHANGED <<gate, hinput, hText, hResult, hPreview>>

\* process_csv_file line 172
ReplyCsvNone(h) == Say(h, "reply_csv_none", "no_questions", "done")

\* lines 190-197 without the test of line 192
ExtractText_unchecked(h) ==
    /\ hPc[h] = "extract_text"
    /\ \E t \in DocTexts :
          /\ hText' = [hText EXCEPT ![h] = t]
          /\ Go(h, "reply_analysing", <<"extract_text">>)
    /\ UNCHANGED <<gate, hinput, hCount, hResult, hPreview>>

\* process_pdf_file lines 190-192
ExtractText(h) ==
    /\ hPc[h] = "extract_text"
    /\ \E t \in DocTexts :
          /\ hText' = [hText EXCEPT ![h] = t]
          /\ Go(h, IF t.blank THEN "reply_no_text" ELSE "reply_analysing",
                <<"extract_text">>)
    /\ UNCHANGED <<gate, hinput, hCount, hResult, hPreview>>

\* line 193, then return
ReplyNoText(h) == Say(h, "reply_no_text", "no_text", "done")

\* lines 197-204: the notice, then extract_questions_from_text
ReplyAnalysing(h) ==
    /\ hPc[h] = "reply_analysing"
    /\ \E n \in RecordCounts :
          /\ hCount' = [hCount EXCEPT ![h] = n]
          /\ Go(h, "delete_notice", <<"analysing", "parse">>)
    /\ UNCHANGED <<gate, hinput, hText, hResult, hPreview>>

\* lines 206 and 220: processing_msg.delete()
DeleteNotice(h) ==
    /\ hPc[h] = "delete_notice"
    /\ Go(h, IF hCount[h] = 0 THEN "reply_no_questions" ELSE "reply_found",
          <<>>)
    /\ UNCHANGED <<gate, hinput, hdata>>

\* lines 207-218: the reply with the excerpt
ReplyNoQuestions(h) ==
    /\ hPc[h] = "reply_no_questions"
    /\ hPreview' = [hPreview EXCEPT ![h] = Preview(hText[h].len)]
    /\ Go(h, "done", <<"no_questions">>)
    /\ UNCHANGED <<gate, hinput, hText, hCount, hResult>>

\* line 222
ReplyFound(h) == Say(h, "reply_found", "found", "dispatch")

\* line 225 (process_pdf_file), line 163 (process_csv_file): the call of
\* send_paginated_quizzes; an exception of it is re-raised at lines 236
\* and 177 and caught at line 76
Dispatch(h) ==
    /\ hPc[h] = "dispatch"
    /\ \E out \in DispatchOutcomes(hCount[h]) :
          IF out.kind = "returned"
          THEN /\ hResult' = [hResult EXCEPT ![h] = out.counts]
               /\ Go(h, "reply_tally", <<"dispatch">>)
          ELSE /\ UNCHANGED hResult
               /\ Go(h, "log_error", <<"dispatch">>)
    /\ UNCHANGED <<gate, hinput, hText, hCount, hPreview>>

\* lines 228-232 (process_pdf_file), 166-170 (process_csv_file)
ReplyTally(h) == Say(h, "reply_tally", "tally", "done")

\* lines 81-87 (process_file), 282-288 (handle_document): the message to
\* the log channel, inside its own try block
LogError(h) ==
    /\ hPc[h] = "log_error"
    /\ Go(h, "reply_error", <<>>)
    /\ UNCHANGED <<gate, hinput, hdata>>

\* line 90 (process_file), line 291 (handle_document)
ReplyError(h) == Say(h, "reply_error", "error", "done")

\* ---- Bot 0.2 ----

\* handle_pdf_file, lines 51-67, up to its first await; without a file
\* name line 63 raises AttributeError (handler of line 106)
HandlePdfFile(h) ==
    /\ program = "Bot 0.2"
    /\ hPc[h] = "arrived"
    /\ IF TooSoon(hUser[h], now)
       THEN /\ Go(h, "reply_wait", <<>>)
            /\ UNCHANGED <<user_last_file_time, hStamp>>
       ELSE /\ user_last_file_time' =
                  [user_last_file_time EXCEPT ![hUser[h]] = now]
            /\ hStamp' = [hStamp EXCEPT ![h] = now]
            /\ Go(h, IF hFile[h] = "noname" THEN "pdf_reply_error"
                     ELSE IF hFile[h] # "pdf" THEN "reply_ext"
                     ELSE "pdf_reply_processing",
                  <<"stamp">>)
    /\ UNCHANGED <<program, signalled, now, hinput, hdata>>

\* line 67
PdfReplyProcessing(h) ==
    Say(h, "pdf_reply_processing", "analysing", "pdf_download")

\* line 71: the download, which may raise (handler of line 106); then
\* lines 73-78
PdfDownload(h) ==
    /\ hPc[h] = "pdf_download"
    /\ \/ Go(h, "pdf_extract_text", <<"download">>)
       \/ Go(h, "pdf_reply_error_noticed", <<"download">>)
    /\ UNCHANGED <<gate, hinput, hdata>>

\* lines 78-87: the text, then extract_questions_from_text
PdfExtractText(h) ==
    /\ hPc[h] = "pdf_extract_text"
    /\ \E t \in DocTexts, n \in RecordCounts :
          /\ hText' = [hText EXCEPT ![h] = t]
          /\ hCount' = [hCount EXCEPT ![h] = IF t.blank THEN 0 ELSE n]
          /\ Go(h, IF t.blank THEN "pdf_reply_no_text"
                   ELSE IF n = 0 THEN "pdf_reply_no_questions"
                   ELSE "pdf_send_quizzes",
                IF t.blank THEN <<"extract_text">>
                ELSE <<"extract_text", "parse">>)
    /\ UNCHANGED <<gate, hinput, hResult, hPreview>>

\* line 80
PdfReplyNoText(h) == Say(h, "pdf_reply_no_text", "no_text", "pdf_delete_notice")

\* lines 88-95
PdfReplyNoQuestions(h) ==
    Say(h, "pdf_reply_no_questions", "no_questions", "pdf_delete_notice")

\* line 99
PdfSendQuizzes(h) ==
    /\ hPc[h] = "pdf_send_quizzes"
    /\ \E counts \in QuizOutcomes(hCount[h]) :
          hResult' = [hResult EXCEPT ![h] = counts]
    /\ Go(h, "pdf_reply_tally", <<"dispatch">>)
    /\ UNCHANGED <<gate, hinput, hText, hCount, hPreview>>

\* lines 100-104
PdfReplyTally(h) == Say(h, "pdf_reply_tally", "tally", "pdf_delete_notice")

\* line 108: before processing_msg exists, and after
PdfReplyError(h) ==
    \/ Say(h, "pdf_reply_error", "error", "done")
    \/ Say(h, "pdf_reply_error_noticed", "error", "pdf_delete_notice")

\* lines 112-116
PdfDeleteNotice(h) ==
    /\ hPc[h] = "pdf_delete_notice"
    /\ Go(h, "done", <<>>)
    /\ UNCHANGED <<gate, hinput, hdata>>

others == <<dvars, cvars, tvars, qvars>>

NextDoc ==
    \/ Start /\ UNCHANGED others
    \/ Tick /\ UNCHANGED others
    \/ \E h \in Handlers, u \in Users, f \in Files :
          Arrive(h, u, f) /\ UNCHANGED others
    \/ \E h \in Handlers : HandleDocument(h) /\ UNCHANGED others
    \/ \E h \in Handlers : ReplyWait(h) /\ UNCHANGED others
    \/ \E h \in Handlers : ReplyNoName(h) /\ UNCHANGED others
    \/ \E h \in Handlers : ReplyExtension(h) /\ UNCHANGED others
    \/ \E h \in Handlers : Download(h) /\ UNCHANGED others
    \/ \E h \in Handlers : AnswerReceived(h) /\ UNCHANGED others
    \/ \E h \in Handlers : ReplyCsvNone(h) /\ UNCHANGED others
    \/ \E h \in Handlers : ExtractText(h) /\ UNCHANGED others
    \/ \E h \in Handlers : ReplyNoText(h) /\ UNCHANGED others
    \/ \E h \in Handlers : ReplyAnalysing(h) /\ UNCHANGED others
    \/ \E h \in Handlers : DeleteNotice(h) /\ UNCHANGED others
    \/ \E h \in Handlers : ReplyNoQuestions(h) /\ UNCHANGED others
    \/ \E h \in Handlers : ReplyFound(h) /\ UNCHANGED others
    \/ \E h \in Handlers : Dispatch(h) /\ UNCHANGED others
    \/ \E h \in Handlers : ReplyTally(h) /\ UNCHANGED others
    \/ \E h \in Handlers : LogError(h) /\ UNCHANGED others
    \/ \E h \in Handlers : ReplyError(h) /\ UNCHANGED others
    \/ \E h \in Handlers : HandlePdfFile(h) /\ UNCHANGED others
    \/ \E h \in Handlers : PdfReplyProcessing(h) /\ UNCHANGED others
    \/ \E h \in Handlers : PdfDownload(h) /\ UNCHANGED others
    \/ \E h \in Handlers : PdfExtractText(h) /\ UNCHANGED others
    \/ \E h \in Handlers : PdfReplyNoText(h) /\ UNCHANGED others
    \/ \E h \in Handlers : PdfReplyNoQuestions(h) /\ UNCHANGED others
    \/ \E h \in Handlers : PdfSendQuizzes(h) /\ UNCHANGED others
    \/ \E h \in Handlers : PdfReplyTally(h) /\ UNCHANGED others
    \/ \E h \in Handlers : PdfReplyError(h) /\ UNCHANGED others
    \/ \E h \in Handlers : PdfDeleteNotice(h) /\ UNCHANGED others

\* the bot before its start, the other functions not running
DocInit == InitDocIdle /\ InitDispatchIdle /\ InitCsvIdle /\ InitTextIdle
            /\ InitQuizIdle

SpecDoc == DocInit /\ [][NextDoc]_vars

----------------------------------------------------------------------------
(* send_paginated_quizzes while a termination signal arrives (Bot 0.1).    *)
(* main.py 70-81 installs `shutdown` for SIGINT and SIGTERM; shutdown      *)
(* (lines 53-63) waits with asyncio.gather for the running tasks and       *)
(* cancels none of them, and send_paginated_quizzes takes no argument and  *)
(* reads no variable that tells it of the signal.                          *)

\* main.py 53-63: the signal arrives during a run of the function
Signal ==
    /\ ~signalled
    /\ pc \notin {"idle", "done", "raised"}
    /\ signalled' = TRUE
    /\ UNCHANGED <<program, now, user_last_file_time, hPc, hStamp, hTrace,
                   hinput, hdata>>

NextSignal ==
    \/ Announce /\ UNCHANGED <<cvars, tvars, hvars, qvars>>
    \/ SendPollOk /\ UNCHANGED <<cvars, tvars, hvars, qvars>>
    \/ SendPollFail /\ UNCHANGED <<cvars, tvars, hvars, qvars>>
    \/ Except /\ UNCHANGED <<cvars, tvars, hvars, qvars>>
    \/ Pace /\ UNCHANGED <<cvars, tvars, hvars, qvars>>
    \/ NotifyWait /\ UNCHANGED <<cvars, tvars, hvars, qvars>>
    \/ Wait /\ UNCHANGED <<cvars, tvars, hvars, qvars>>
    \/ RetryOk /\ UNCHANGED <<cvars, tvars, hvars, qvars>>
    \/ RetryFail /\ UNCHANGED <<cvars, tvars, hvars, qvars>>
    \/ Progress /\ UNCHANGED <<cvars, tvars, hvars, qvars>>
    \/ BatchDelay /\ UNCHANGED <<cvars, tvars, hvars, qvars>>
    \/ NotifyLong /\ UNCHANGED <<cvars, tvars, hvars, qvars>>
    \/ LongDelay /\ UNCHANGED <<cvars, tvars, hvars, qvars>>
    \/ Signal /\ UNCHANGED <<dvars, cvars, tvars, qvars>>

SpecSignal == Init /\ [][NextSignal]_vars

----------------------------------------------------------------------------
(* send_paginated_quizzes with its send_poll calls and its sleeps counted, *)
(* and every await returning in the end (utils.py 175-260).                *)

\* longest list of the counted runs that has no extended pause
MaxMeteredN == 11

\* the shortest list with an extended pause (line 256): five batches and
\* one more record
LongRunN == 5 * BATCH_SIZE + 1

\* lines 175-176 and the caller's `if questions:` (handlers.py 163, 202)
InitMetered ==
    /\ nq \in (1..MaxMeteredN) \cup {LongRunN}
    /\ pc = "announce"
    /\ i = 0 /\ q_index = 0
    /\ sent_count = 0 /\ error_count = 0
    /\ retry_time = 0 /\ err = NoErr /\ result = NoResult
    /\ attempted = {} /\ lastPolled = 0 /\ curPolls = 0 /\ curStatus = "none"
    /\ slept = 0 /\ nSent = 0 /\ nFailed = 0
    /\ metered = TRUE /\ polls = 0 /\ cooldowns = 0 /\ batchDelays = 0
    /\ announced = 0 /\ progressSent = 0 /\ longPauses = 0
    /\ batchesClosed = 0 /\ notifyFailed = FALSE

MeteredInit == InitMetered /\ InitCsvIdle /\ InitTextIdle /\ InitDocIdle
            /\ InitQuizIdle

NextMetered ==
    \/ Announce /\ UNCHANGED <<cvars, tvars, hvars, qvars>>
    \/ SendPollOk /\ UNCHANGED <<cvars, tvars, hvars, qvars>>
    \/ SendPollFail /\ UNCHANGED <<cvars, tvars, hvars, qvars>>
    \/ Except /\ UNCHANGED <<cvars, tvars, hvars, qvars>>
    \/ Pace /\ UNCHANGED <<cvars, tvars, hvars, qvars>>
    \/ NotifyWait /\ UNCHANGED <<cvars, tvars, hvars, qvars>>
    \/ Wait /\ UNCHANGED <<cvars, tvars, hvars, qvars>>
    \/ RetryOk /\ UNCHANGED <<cvars, tvars, hvars, qvars>>
    \/ RetryFail /\ UNCHANGED <<cvars, tvars, hvars, qvars>>
    \/ Progress /\ UNCHANGED <<cvars, tvars, hvars, qvars>>
    \/ BatchDelay /\ UNCHANGED <<cvars, tvars, hvars, qvars>>
    \/ NotifyLong /\ UNCHANGED <<cvars, tvars, hvars, qvars>>
    \/ LongDelay /\ UNCHANGED <<cvars, tvars, hvars, qvars>>

\* Every await of the coroutine returns or raises in the end: the event
\* loop resumes it after each send_message, send_poll and asyncio.sleep,
\* so a step that is possible is taken.
SpecMetered == MeteredInit /\ [][NextMetered]_vars /\ WF_vars(NextMetered)

----------------------------------------------------------------------------
(* extract_questions_from_text of Bot 0.2, utils.py 62-176: the loop over  *)
(* the tuples re.findall returned (lines 120-174). The expressions of      *)
(* lines 85-106 return four groups per match, the one of line 109 three    *)
(* (number, question, answer token) and the one of line 112 seven (number, *)
(* question, first marker, first option, last marker, last option, answer  *)
(* token). The Arabic literals of this file are stored as written; the     *)
(* letters are named here by their transliteration.                        *)

\* line 146: the ten letters alef, beh, jeem, dal, heh, waw, zain, hah,
\* tah, yeh
arabic_options ==
    <<"alef", "beh", "jeem", "dal", "heh", "waw", "zain", "hah", "tah", "yeh">>

\* letters of the range of lines 97 and 144 that are not in that string
OtherArabic == <<"teh", "theh">>

\* the class of the expression of line 144
ArabicRange == Range(arabic_options) \cup Range(OtherArabic)

\* ord() of the characters the model resolves to an index
Ord(c) ==
    IF PosIn(Letters, c) >= 0 THEN 97 + PosIn(Letters, c)
    ELSE IF PosIn(Capitals, c) >= 0 THEN 65 + PosIn(Capitals, c)
    ELSE IF PosIn(Numerals, c) >= 0 THEN 49 + PosIn(Numerals, c)
    ELSE IF c = "x" THEN 120
    ELSE IF c = "y" THEN 121
    ELSE IF c = ")" THEN 41
    ELSE 0

\* str.lower and str.upper on a string (of digits, a-d, A-D, Arabic letters
\* and punctuation)
Lower(s) == [k \in 1..Len(s) |-> ToLower(s[k])]
Upper(s) == [k \in 1..Len(s) |-> ToUpper(s[k])]

\* str.find on strings: the 0-based position of the first occurrence of
\* sub in s, -1 when there is none
Find(s, sub) ==
    First({k \in 1..(Len(s) + 1) :
              /\ k + Len(sub) - 1 <= Len(s)
              /\ SubSeq(s, k, k + Len(sub) - 1) = sub}) - 1

\* int() accepts the string (decimal digits only in the model)
IsInt(s) == s # <<>> /\ \A k \in 1..Len(s) : s[k] \in Digits

\* int() of such a string
RECURSIVE IntOf(_)
IntOf(s) ==
    IF s = <<>> THEN 0
    ELSE 10 * IntOf(SubSeq(s, 1, Len(s) - 1))
         + (IF s[Len(s)] = "0" THEN 0 ELSE PosIn(Numerals, s[Len(s)]) + 1)

\* line 159 with the upper end included
InRange_closed(correct_index, options) ==
    0 <= correct_index /\ correct_index <= Len(options)

\* line 159: 0 <= correct_index < len(options)
InRange(correct_index, options) ==
    0 <= correct_index /\ correct_index < Len(options)

\* Lines 122-156 for one tuple. `raised` tells that a statement of the try
\* block raised (match[3] on a tuple of three groups, ord() on a string
\* that is not one character, int() on a string that is no number), so
\* the handler of lines 172-174 ends the iteration.
Resolve(match) ==
    LET question_num == Strip(match[1])
        question_text == IF question_num # <<>>
                         THEN question_num \o <<" ">> \o Strip(match[2])
                         ELSE Strip(match[2])
        options_text == Strip(match[3])
        lower == options_text # <<>> /\ options_text[1] \in Range(Letters)
        upper == options_text # <<>> /\ options_text[1] \in Range(Capitals)
        arabic == options_text # <<>>
                  /\ options_text[1] \in Range(arabic_options)
        options == OptionTexts(options_text, 1,
                               IF lower THEN Range(Letters)
                               ELSE IF upper THEN Range(Capitals)
                               ELSE IF arabic THEN ArabicRange
                               ELSE Range(Numerals))
        stripped == Strip(match[4])
        lowered == Lower(stripped)
        correct_answer ==
            IF lower
            THEN IF lowered # <<>> /\ lowered[Len(lowered)] = ")"
                 THEN SubSeq(lowered, 1, Len(lowered) - 1) ELSE lowered
            ELSE IF upper THEN Upper(stripped)
            ELSE stripped
        raised ==
            \/ options_text = <<>> /\ ~lower /\ ~upper
            \/ Len(match) < 4
            \/ (lower \/ upper) /\ Len(correct_answer) # 1
            \/ ~lower /\ ~upper /\ ~arabic /\ ~IsInt(correct_answer)
        correct_index ==
            IF lower THEN Ord(correct_answer[1]) - Ord("a")
            ELSE IF upper THEN Ord(correct_answer[1]) - Ord("A")
            ELSE IF arabic THEN Find(arabic_options, correct_answer)
            ELSE IntOf(correct_answer) - 1
    IN [question |-> question_text,
        options |-> options,
        raised |-> raised,
        correct_option_id |-> IF raised THEN -1 ELSE correct_index,
        valid |-> ~raised /\ InRange(correct_index, options)]

\* ---- the tuples the model feeds to the loop ----

ArabicParen == [alphabet |-> arabic_options, delim |-> ")"]
OtherArabicParen == [alphabet |-> OtherArabic, delim |-> ")"]

\* most option lines of a block of a tuple
MaxOptions == 3

\* the tuple of a block pattern for question q with k option lines and the
\* answer token given
BlockMatch(q, style, k, token) ==
    <<<<"1", ".", " ">>, q, Tail(OptionLines(style, 1, k)), <<token>>>>

BlockMatches ==
    {BlockMatch(<<"Q">>, style, k, MarkerOf(style, a)) :
        style \in {LowerParen, UpperParen, DigitParen, ArabicParen, LowerDot},
        k \in {2, MaxOptions},
        a \in 1..(MaxOptions + 1)}

SpecialMatches ==
    {\* an answer letter of the range that is not in arabic_options
     BlockMatch(<<"Q">>, ArabicParen, 2, "teh"),
     \* markers of the range that are not in arabic_options
     BlockMatch(<<"Q">>, OtherArabicParen, 2, "teh"),
     BlockMatch(<<"R">>, OtherArabicParen, 2, "alef"),
     \* line 109: three groups
     <<<<"1", ".", " ">>, <<"Q">>, <<"a">>>>,
     <<<<"1", ".", " ">>, <<"R">>, <<"1">>>>,
     \* line 112: seven groups, the fourth one the first option's text
     <<<<"1", ".", " ">>, <<"Q">>, <<"a">>, <<"x">>, <<"b">>, <<"y">>, <<"a">>>>,
     <<<<"1", ".", " ">>, <<"Q">>, <<"a">>, <<"x", "y">>, <<"b">>, <<"y">>,
       <<"a">>>>,
     <<<<"1", ".", " ">>, <<"R">>, <<"a">>, <<"b", ")">>, <<"b">>, <<"y">>,
       <<"b">>>>,
     <<<<"1", ".", " ">>, <<"R">>, <<"A">>, <<"3">>, <<"B">>, <<"y">>, <<"A">>>>}

MatchPool == BlockMatches \cup SpecialMatches

\* the tuples that may follow the first one: another question or the same
\* one, with an index inside or outside the options
LaterMatches ==
    {BlockMatch(<<"R">>, LowerParen, 2, "b"),
     BlockMatch(<<"Q">>, UpperParen, 2, "A"),
     BlockMatch(<<"Q">>, DigitParen, 2, "3"),
     BlockMatch(<<"R">>, ArabicParen, MaxOptions, "jeem"),
     BlockMatch(<<"R">>, ArabicParen, MaxOptions, "teh"),
     BlockMatch(<<"R">>, LowerDot, 2, "a")}

\* most tuples of one run
MaxMatches == 3

\* the loops of lines 116-120 are about to visit the tuples
InitMatches ==
    /\ textPc = "matching"
    /\ text = <<>> /\ patIdx = 0
    /\ questions = <<>>
    /\ extracted_questions = {}
    /\ candidates = <<>>
    /\ matches \in {<<m>> \o later :
                        m \in MatchPool,
                        later \in UNION {[1..n -> LaterMatches] :
                                            n \in 0..(MaxMatches - 1)}}
    /\ matchIdx = 0

\* VisitMatch with the id of line 161 put into the set before the test of
\* line 159
VisitMatch_markFirst ==
    /\ textPc = "matching"
    /\ matchIdx < Len(matches)
    /\ LET c == Resolve(matches[matchIdx + 1])
           question_id == QuestionId(c.question)
       IN /\ extracted_questions' = extracted_questions \cup {question_id}
          /\ IF c.valid
             THEN /\ candidates' = Append(candidates, Record(c))
                  /\ IF question_id \notin extracted_questions
                     THEN questions' = Append(questions, Record(c))
                     ELSE UNCHANGED questions
             ELSE UNCHANGED <<questions, candidates>>
    /\ matchIdx' = matchIdx + 1
    /\ UNCHANGED <<textPc, text, patIdx, matches>>

\* lines 120-174: one iteration of `for match in matches`
VisitMatch ==
    /\ textPc = "matching"
    /\ matchIdx < Len(matches)
    /\ LET c == Resolve(matches[matchIdx + 1])
           question_id == QuestionId(c.question)
       IN IF c.valid
          THEN /\ candidates' = Append(candidates, Record(c))
               /\ IF question_id \notin extracted_questions
                  THEN /\ questions' = Append(questions, Record(c))
                       /\ extracted_questions' =
                              extracted_questions \cup {question_id}
                  ELSE UNCHANGED <<questions, extracted_questions>>
          ELSE UNCHANGED <<questions, extracted_questions, candidates>>
    /\ matchIdx' = matchIdx + 1
    /\ UNCHANGED <<textPc, text, patIdx, matches>>

\* line 176
ReturnMatched ==
    /\ textPc = "matching"
    /\ matchIdx = Len(matches)
    /\ textPc' = "returned"
    /\ UNCHANGED <<text, patIdx, questions, extracted_questions, candidates,
                   matches, matchIdx>>

NextMatch ==
    \/ VisitMatch /\ UNCHANGED <<dvars, cvars, hvars, qvars>>
    \/ ReturnMatched /\ UNCHANGED <<dvars, cvars, hvars, qvars>>

\* the loops of Bot 0.2 running, the other functions not
MatchInit == InitMatches /\ InitDispatchIdle /\ InitCsvIdle /\ InitDocIdle
            /\ InitQuizIdle

SpecMatch == MatchInit /\ [][NextMatch]_vars

----------------------------------------------------------------------------
(* The quiz batches of Bot 0.2: handle_forwarded_quiz (handlers.py         *)
(* 118-142) and finish_quiz_batch (144-169).  aiogram runs one coroutine   *)
(* per message; a step below runs from one await to the next.  Both        *)
(* handlers change user_quiz_batches before their first await, and         *)
(* format_quiz_as_text (utils.py 256-274) awaits nothing, so the loop of   *)
(* lines 155-157 is not suspended.  The replies are taken to be delivered. *)

\* line 128: timedelta(hours=1), in seconds
HOUR == 3600

\* line 160: the longest text sent as one message
MAX_MESSAGE == 4096

\* line 161: characters of one part of a longer text
PART_LEN == 4000

\* line 153: len of the heading of the summary
HEADING_LEN == 24

\* most messages (forwarded quizzes and /finish commands) of one run
MaxQuizMessages == 4

\* len of what format_quiz_as_text returns for a short and for a long quiz
ShortQuizLen == 60
LongQuizLen == 1400

\* the instants at which the clock is read
QuizInstants == {0, HOUR + 1}

\* a coroutine of user u, started by message msg, waiting to send a reply
Task(msg, u, kind, count, items, left) ==
    [msg |-> msg, user |-> u, kind |-> kind, count |-> count,
     items |-> items, left |-> left]

\* line 157: len of f"{i}. {quiz_text}\n\n" for i < 10
ItemLen(quiz) == quiz.len + 5

RECURSIVE TextLen(_)
\* lines 153-157: len(message_text) for the quizzes given
TextLen(quizzes) ==
    IF quizzes = <<>> THEN HEADING_LEN
    ELSE TextLen(SubSeq(quizzes, 1, Len(quizzes) - 1))
         + ItemLen(quizzes[Len(quizzes)])

\* lines 160-165: the number of replies that carry the text
Parts(len) == IF len > MAX_MESSAGE THEN CeilDiv(len, PART_LEN) ELSE 1

\* lines 155-157: enumerate(quizzes, 1)
Numbered(quizzes) ==
    [k \in 1..Len(quizzes) |-> [number |-> k, quiz |-> quizzes[k]]]

\* time passes
QuizTick ==
    /\ \E t \in QuizInstants : t > clock /\ clock' = t
    /\ UNCHANGED <<user_quiz_batches, qTasks, qMsgs, qSince, qReplies>>

\* handle_forwarded_quiz with one batch for all users: the key of lines
\* 125-134 is the same for everyone
HandleForwardedQuiz_shared(u, len) ==
    /\ qMsgs < MaxQuizMessages
    /\ qMsgs' = qMsgs + 1
    /\ LET quiz == [id |-> qMsgs + 1, from |-> u, len |-> len]
           key == "u1"
           batch == IF user_quiz_batches[key] = NoBatch
                    THEN [quizzes |-> <<>>, expires_at |-> clock + HOUR]
                    ELSE user_quiz_batches[key]
           stored == [batch EXCEPT !.quizzes = Append(@, quiz)]
       IN /\ user_quiz_batches' = [user_quiz_batches EXCEPT ![key] = stored]
          /\ qTasks' = qTasks \cup {Task(qMsgs + 1, u, "stored",
                                         Len(stored.quizzes), <<>>, 1)}
          /\ qSince' = [qSince EXCEPT ![u] = Append(@, quiz)]
    /\ UNCHANGED <<clock, qReplies>>

\* handle_forwarded_quiz, lines 120-134, up to the await of line 135; the
\* message is a forwarded quiz (line 121, main.py 27) of user u
HandleForwardedQuiz(u, len) ==
    /\ qMsgs < MaxQuizMessages
    /\ qMsgs' = qMsgs + 1
    /\ LET quiz == [id |-> qMsgs + 1, from |-> u, len |-> len]
           batch == IF user_quiz_batches[u] = NoBatch
                    THEN [quizzes |-> <<>>, expires_at |-> clock + HOUR]
                    ELSE user_quiz_batches[u]
           stored == [batch EXCEPT !.quizzes = Append(@, quiz)]
       IN /\ user_quiz_batches' = [user_quiz_batches EXCEPT ![u] = stored]
          /\ qTasks' = qTasks \cup {Task(qMsgs + 1, u, "stored",
                                         Len(stored.quizzes), <<>>, 1)}
          /\ qSince' = [qSince EXCEPT ![u] = Append(@, quiz)]
    /\ UNCHANGED <<clock, qReplies>>

\* line 135: the reply with the count
ReplyStored(t) ==
    /\ t \in qTasks /\ t.kind = "stored"
    /\ qTasks' = qTasks \ {t}
    /\ qReplies' = [qReplies EXCEPT ![t.user] =
                       Append(@, [kind |-> "stored", to |-> t.msg,
                                  count |-> t.count])]
    /\ UNCHANGED <<user_quiz_batches, clock, qMsgs, qSince>>

\* finish_quiz_batch reading the batch with [] instead of pop (line 152)
FinishQuizBatch_kept(u) ==
    /\ qMsgs < MaxQuizMessages
    /\ qMsgs' = qMsgs + 1
    /\ IF user_quiz_batches[u] = NoBatch
       THEN /\ qTasks' = qTasks \cup {Task(qMsgs + 1, u, "none", 0, <<>>, 1)}
            /\ UNCHANGED <<user_quiz_batches, qSince>>
       ELSE LET quizzes == user_quiz_batches[u].quizzes
            IN /\ qTasks' = qTasks \cup
                      {Task(qMsgs + 1, u, "summary", Len(quizzes),
                            Numbered(quizzes), Parts(TextLen(quizzes)))}
               /\ UNCHANGED user_quiz_batches
               /\ qSince' = [qSince EXCEPT ![u] = <<>>]
    /\ UNCHANGED <<clock, qReplies>>

\* finish_quiz_batch, lines 146-159, up to its first reply: the test of
\* line 148, or the pop of line 152 and the text of lines 153-157
FinishQuizBatch(u) ==
    /\ qMsgs < MaxQuizMessages
    /\ qMsgs' = qMsgs + 1
    /\ IF user_quiz_batches[u] = NoBatch
       THEN /\ qTasks' = qTasks \cup {Task(qMsgs + 1, u, "none", 0, <<>>, 1)}
            /\ UNCHANGED <<user_quiz_batches, qSince>>
       ELSE LET quizzes == user_quiz_batches[u].quizzes
            IN /\ qTasks' = qTasks \cup
                      {Task(qMsgs + 1, u, "summary", Len(quizzes),
                            Numbered(quizzes), Parts(TextLen(quizzes)))}
               /\ user_quiz_batches' =
                      [user_quiz_batches EXCEPT ![u] = NoBatch]
               /\ qSince' = [qSince EXCEPT ![u] = <<>>]
    /\ UNCHANGED <<clock, qReplies>>

\* line 149: the reply that no quizzes are stored
ReplyNone(t) ==
    /\ t \in qTasks /\ t.kind = "none"
    /\ qTasks' = qTasks \ {t}
    /\ qReplies' = [qReplies EXCEPT ![t.user] = Append(@, [kind |-> "none"])]
    /\ UNCHANGED <<user_quiz_batches, clock, qMsgs, qSince>>

\* lines 160-165: one reply with the text or with one part of it; the
\* text has arrived when its last part has
ReplySummary(t) ==
    /\ t \in qTasks /\ t.kind = "summary"
    /\ IF t.left > 1
       THEN /\ qTasks' = (qTasks \ {t}) \cup {[t EXCEPT !.left = @ - 1]}
            /\ UNCHANGED qReplies
       ELSE /\ qTasks' = qTasks \ {t}
            /\ qReplies' = [qReplies EXCEPT ![t.user] =
                               Append(@, [kind |-> "summary",
                                          items |-> t.items])]
    /\ UNCHANGED <<user_quiz_batches, clock, qMsgs, qSince>>

quizothers == <<dvars, cvars, tvars, hvars>>

NextQuiz ==
    \/ QuizTick /\ UNCHANGED quizothers
    \/ \E u \in Users, len \in {ShortQuizLen, LongQuizLen} :
          HandleForwardedQuiz(u, len) /\ UNCHANGED quizothers
    \/ \E t \in qTasks : ReplyStored(t) /\ UNCHANGED quizothers
    \/ \E u \in Users : FinishQuizBatch(u) /\ UNCHANGED quizothers
    \/ \E t \in qTasks : ReplyNone(t) /\ UNCHANGED quizothers
    \/ \E t \in qTasks : ReplySummary(t) /\ UNCHANGED quizothers

\* Bot 0.2 waiting for forwarded quizzes and /finish commands
QuizInit ==
    InitQuizIdle /\ InitDispatchIdle /\ InitCsvIdle /\ InitTextIdle
        /\ InitDocIdle

SpecQuiz == QuizInit /\ [][NextQuiz]_vars

----------------------------------------------------------------------------
(* Properties of the document handlers.                                    *)

\* the coroutine h runs from its start to its first await
GateStep(h) == hPc[h] = "arrived" /\ hPc'[h] # "arrived"

Occurrences(s, x) == Cardinality({k \in 1..Len(s) : s[k] = x})

\* C12: user_last_file_time holds for each requester the time of the
\* requester's last accepted submission; a submission made less than
\* MIN_INTERVAL_BETWEEN_FILES seconds after it gets the wait notice and
\* nothing else (no download, no extraction, no dispatcher call) and leaves
\* the entry as it was; no submission changes or reads the entry of
\* another requester.
C12_RateLimitGate ==
    [][/\ \A h \in Handlers :
            GateStep(h) =>
              LET u == hUser[h]
                  last == user_last_file_time[u]
                  early == last # Absent
                           /\ now - last < MIN_INTERVAL_BETWEEN_FILES
              IN /\ \A v \in Users \ {u} :
                       user_last_file_time'[v] = user_last_file_time[v]
                 /\ early => /\ user_last_file_time'[u] = last
                             /\ hPc'[h] = "reply_wait"
                             /\ hTrace'[h] = <<>>
                 /\ ~early => /\ user_last_file_time'[u] = now
                              /\ hPc'[h] # "reply_wait"
       /\ \A h \in Handlers :
            /\ hPc'[h] = "reply_wait" => hTrace'[h] = <<>>
            /\ Occurrences(hTrace'[h], "wait_notice") > 0 =>
                  hPc'[h] = "done" /\ hTrace'[h] = <<"wait_notice">>
       /\ \A u \in Users :
            user_last_file_time'[u] # user_last_file_time[u] =>
               \E h \in Handlers : GateStep(h) /\ hUser[h] = u
      ]_vars

\* a submission of a requester was accepted and, less than
\* MIN_INTERVAL_BETWEEN_FILES seconds later, another one of the same
\* requester got the wait notice and ended
C12_Witness ==
    \E h1, h2 \in Handlers :
        /\ hUser[h1] = hUser[h2]
        /\ Len(hTrace[h1]) > 0 /\ hTrace[h1][1] = "stamp"
        /\ hPc[h2] = "done" /\ hTrace[h2] = <<"wait_notice">>
        /\ now > user_last_file_time[hUser[h1]]
        /\ now - user_last_file_time[hUser[h1]] < MIN_INTERVAL_BETWEEN_FILES

\* the coroutine h of Bot 0.1 ended after a PDF file passed the gate and
\* gave a text that is not blank
PdfHandled(h) ==
    /\ program = "Bot 0.1" /\ hPc[h] = "done" /\ hFile[h] = "pdf"
    /\ Occurrences(hTrace[h], "extract_text") = 1
    /\ ~hText[h].blank

\* C13: a PDF submission that passed the gate and gave a non-blank text
\* ends with one outcome: with zero records the "no questions" reply with
\* at most PREVIEW_LEN characters of the text and no dispatcher call, else
\* one dispatcher call and the tally reply with the counts it returned.
C13_OneOutcome ==
    \A h \in Handlers :
        PdfHandled(h) =>
            IF hCount[h] = 0
            THEN /\ Occurrences(hTrace[h], "no_questions") = 1
                 /\ hPreview[h] <= PREVIEW_LEN
                 /\ Occurrences(hTrace[h], "dispatch") = 0
                 /\ Occurrences(hTrace[h], "tally") = 0
                 /\ Occurrences(hTrace[h], "error") = 0
            ELSE /\ Occurrences(hTrace[h], "dispatch") = 1
                 /\ Occurrences(hTrace[h], "tally") = 1
                 /\ hResult[h] # <<>>
                 /\ Occurrences(hTrace[h], "no_questions") = 0
                 /\ Occurrences(hTrace[h], "error") = 0

----------------------------------------------------------------------------
(* Further properties of send_paginated_quizzes.                           *)

\* the 1-based number of the batch whose records have just been handled
ClosingBatch == batchesClosed + 1

\* C14: after batch k, when k is a multiple of 5 and another batch
\* follows, and only then, the extended-pause notice is sent and LARGE_DELAY
\* seconds are slept after the MEDIUM_DELAY seconds of every batch boundary,
\* before the first send_poll call of batch k + 1.
C14_ExtendedPauseEveryFifth ==
    [][ /\ pc = "batch_delay" =>
              /\ slept' = slept + MEDIUM_DELAY
              /\ IF ClosingBatch % 5 = 0
                 THEN pc' = "notify_long" /\ i' = i
                 ELSE pc' = "send_poll" /\ i' = i + BATCH_SIZE
                      /\ longPauses' = longPauses
        /\ pc = "notify_long" =>
              /\ ClosingBatch % 5 = 0 /\ lastPolled < nq
              /\ slept >= MEDIUM_DELAY
              /\ pc' \in {"long_delay", "raised"}
              /\ pc' = "long_delay" => longPauses' = longPauses + 1
        /\ pc = "long_delay" =>
              /\ slept' = slept + LARGE_DELAY
              /\ pc' = "send_poll" /\ i' = i + BATCH_SIZE
        /\ longPauses' # longPauses => pc = "notify_long"
        /\ i' # i =>
              /\ pc = (IF ClosingBatch % 5 = 0 THEN "long_delay"
                       ELSE "batch_delay")
              /\ longPauses' = ClosingBatch \div 5
              /\ slept' >= MEDIUM_DELAY
                           + (IF ClosingBatch % 5 = 0 THEN LARGE_DELAY ELSE 0)
        /\ pc' = "done" => longPauses' = (CeilDiv(nq, BATCH_SIZE) - 1) \div 5
      ]_vars

\* the sixth batch starts after the notice and both delays
C14_Witness ==
    /\ pc = "send_poll" /\ i = 5 * BATCH_SIZE /\ q_index = 0
    /\ longPauses = 1 /\ slept = MEDIUM_DELAY + LARGE_DELAY

\* C15: the announcement of the number of records is sent once, and no
\* send_poll call is made before it: past line 179 the announcement has
\* been delivered once, or the call that sends it raised and the run ended
\* without any send_poll call.
C15_AnnouncedOnceFirst ==
    /\ announced <= 1
    /\ attempted # {} => announced = 1
    /\ pc = "announce" => announced = 0 /\ attempted = {}
    /\ (pc # "announce" /\ announced = 0) =>
           pc = "raised" /\ attempted = {}
    /\ pc = "done" => announced = 1

\* a run over several batches returned after its single announcement
C15_Witness ==
    /\ pc = "done" /\ announced = 1 /\ nq > BATCH_SIZE
    /\ attempted = 1..nq

\* the failure signal carries a cooldown hint or one of the two
\* too-many-requests texts
SignalsRateLimit(e) == e.hint # NoHint \/ e.flood \/ e.tooMany

\* the exception handler moves on to the next record, or past the batch,
\* and leaves the record as failed
GivenUp ==
    /\ pc' \in {"send_poll", "progress", "done"}
    /\ lastPolled' = lastPolled
    /\ curStatus' = "failed"

\* C16: a failed send_poll call is treated as rate-limited, and retried
\* once, when its exception carries a cooldown hint or a too-many-requests
\* text, either of them alone; after any other failure the record is given
\* up; in both cases the failure has been counted in error_count.
C16_RateLimitDetection ==
    [][ /\ (pc = "send_poll" /\ pc' = "except") =>
               error_count' = error_count + 1
        /\ pc = "except" =>
               /\ error_count' = error_count
               /\ IF SignalsRateLimit(err)
                  THEN pc' = "notify_wait"
                  ELSE GivenUp /\ curPolls' = curPolls
      ]_vars

\* C17: the calls for one record follow Pending -> Sending -> Sent, or
\* -> Failed, or -> RateLimited -> Retrying -> Sent or Failed: a first call,
\* then at most one retry, made only after a failed first call and its
\* cooldown; no record receives a third call or a call after the calls
\* have moved on to a later record; when the run returns each record
\* 1..nq has ended as sent or as failed, not both.
C17_RecordStateMachine ==
    [][ /\ PollStep =>
              \/ /\ pc = "send_poll"
                 /\ lastPolled' = lastPolled + 1 /\ curPolls' = 1
                 /\ pc' \in {"pace", "except"}
              \/ /\ pc = "retry"
                 /\ lastPolled' = lastPolled /\ curPolls = 1 /\ curPolls' = 2
                 /\ curStatus = "failed"
                 /\ (pc' = "pace" /\ curStatus' = "sent") \/ GivenUp
        /\ pc = "except" =>
              pc' = "notify_wait" \/ (GivenUp /\ curPolls' = curPolls)
        /\ pc = "notify_wait" => pc' \in {"wait", "raised"}
        /\ pc = "wait" => pc' = "retry"
        /\ pc' = "retry" => pc = "wait" /\ curPolls = 1 /\ curStatus = "failed"
        /\ pc = "pace" => curStatus = "sent" /\ lastPolled' = lastPolled
        /\ attempted' = 1..lastPolled'
        /\ curPolls' <= 2
        /\ nSent' + nFailed' = (IF lastPolled' = 0 THEN 0 ELSE lastPolled' - 1)
        /\ pc' = "done" => /\ lastPolled' = nq
                           /\ curStatus' \in {"sent", "failed"}
                           /\ FinalSent' + FinalFailed' = nq
      ]_vars

\* a run returned with records sent at once, failed for good and, the
\* last one, failed by the retry
C17_Witness ==
    /\ pc = "done" /\ ~notifyFailed
    /\ curPolls = 2 /\ curStatus = "failed"
    /\ nSent >= 2 /\ nFailed >= 1 /\ error_count >= 2 /\ nq <= BATCH_SIZE

\* C18: between two consecutive send_poll calls of a run some time is
\* slept (pacing delay, rate-limit cooldown or inter-batch delay), also
\* after a failed call that is not rate-limited and after a failed retry.
C18_SuspensionBetweenAttempts ==
    [][ (PollStep /\ lastPolled # 0) => slept > 0 ]_vars

\* the cooldown the exception asks for: its hint, MEDIUM_DELAY without one
Cooldown(e) == IF e.hint # NoHint THEN e.hint ELSE MEDIUM_DELAY

\* C19: after a rate-limited failure the notice of the pause is sent and
\* the hinted number of seconds, or MEDIUM_DELAY without a hint, is slept;
\* the retry is made only after both.
C19_CooldownThenRetry ==
    [][ /\ (pc = "except" /\ IsRateLimited(err)) => pc' = "notify_wait"
        /\ pc = "notify_wait" => pc' \in {"wait", "raised"}
        /\ pc = "wait" => pc' = "retry" /\ slept' = slept + Cooldown(err)
        /\ pc' = "retry" => pc = "wait"
        /\ (pc = "retry" /\ PollStep) =>
               /\ slept = Cooldown(err)
               /\ lastPolled' = lastPolled /\ curPolls' = 2
      ]_vars

\* C19, amended: the seconds slept are the hint plus 5, or MEDIUM_DELAY
\* without a hint; the notice is sent first and the run ends there if
\* sending it raises.
C19_CooldownThenRetryAmended ==
    [][ /\ (pc = "except" /\ IsRateLimited(err)) => pc' = "notify_wait"
        /\ pc = "notify_wait" => pc' \in {"wait", "raised"}
        /\ pc = "wait" =>
               /\ pc' = "retry"
               /\ slept' = slept + (IF err.hint # NoHint THEN err.hint + 5
                                    ELSE MEDIUM_DELAY)
        /\ pc' = "retry" => pc = "wait"
        /\ (pc = "retry" /\ PollStep) =>
               /\ slept = (IF err.hint # NoHint THEN err.hint + 5
                           ELSE MEDIUM_DELAY)
               /\ lastPolled' = lastPolled /\ curPolls' = 2
      ]_vars

\* the retry is about to be made after a hinted cooldown
C19_Witness ==
    /\ pc = "retry" /\ err # NoErr /\ err.hint = 10 /\ slept = 15
    /\ curPolls = 1 /\ curStatus = "failed"

----------------------------------------------------------------------------
(* Further properties of extract_questions_from_text.                      *)

\* the matches ms of one pattern that pass the range check of line 144,
\* in match order
ValidOf(ms) ==
    LET F[k \in 0..Len(ms)] ==
            IF k = 0 THEN <<>>
            ELSE LET c == Candidate(ms[k])
                 IN IF c.raised \/ c.correct_option_id < 0
                       \/ c.correct_option_id >= Len(c.options)
                    THEN F[k - 1]
                    ELSE Append(F[k - 1], Record(c))
    IN F[Len(ms)]

\* the valid candidates of text t in scan order: pattern after pattern in
\* the order of the list, the matches of one pattern from left to right
ScanOrder(t) ==
    LET G[p \in 0..Len(patterns)] ==
            IF p = 0 THEN <<>>
            ELSE G[p - 1] \o
                 (IF patterns[p].shape = "block"
                  THEN ValidOf(FindAll(t, 1, patterns[p],
                                       LastAnswer(t, patterns[p])))
                  ELSE <<>>)
    IN G[Len(patterns)]

\* the subsequence of s made of the first element for each question id
FirstPerFingerprint(s) ==
    LET F[k \in 0..Len(s)] ==
            IF k = 0 THEN <<>>
            ELSE IF \E j \in 1..(k - 1) : SameId(s[j], s[k])
                 THEN F[k - 1]
                 ELSE Append(F[k - 1], s[k])
    IN F[Len(s)]

\* C20: the candidates are visited pattern after pattern in list order
\* and, for one pattern, in match order; the list built is the subsequence
\* of the valid candidates visited so far made of the first one for each
\* question id, whichever pattern the later ones with that id come from.
C20_FirstPerFingerprintKept ==
    /\ questions = FirstPerFingerprint(candidates)
    /\ textPc = "returned" => candidates = ScanOrder(text)

\* the function returned after it dropped a later candidate
\* whose question text differs from the kept one with the same id, and
\* kept candidates with two different ids
C20_Witness ==
    /\ textPc = "returned"
    /\ Len(questions) >= 2
    /\ \E j, k \in 1..Len(candidates) :
          /\ j < k
          /\ SameId(candidates[j], candidates[k])
          /\ candidates[j] # candidates[k]
          /\ candidates[j] = questions[1]

----------------------------------------------------------------------------
(* Properties of the answer index (Bot 0.2).                               *)

\* the answer token of a tuple: its last group, one character
AnswerToken(match) == match[Len(match)][1]

\* the index of the answer token in the alphabet the first character of
\* the option block selects: the distance from "a" or "A", the position in
\* arabic_options (-1 when absent), the digit's value less one (-1 for a
\* token that is not one of the digits 1-9, which has no such value)
ClaimedIndex(match) ==
    LET first == Strip(match[3])[1]
        token == AnswerToken(match)
    IN IF first \in Range(Letters) THEN Ord(token) - Ord("a")
       ELSE IF first \in Range(Capitals) THEN Ord(token) - Ord("A")
       ELSE IF first \in Range(arabic_options) THEN PosIn(arabic_options, token)
       ELSE PosIn(Numerals, token)

\* C21: each tuple visited is dropped exactly when the index of its answer
\* token in the alphabet of its option block (distance from the first
\* letter for a-d and A-D, position in the ten Arabic letters or -1, digit
\* value less one) is outside 0..len(options)-1; a tuple that is kept
\* carries that index; dropping a tuple neither raises nor ends the loop:
\* the later tuples are visited and the function returns only after the
\* last one.
C21_IndexResolvedAndChecked ==
    [][ /\ matchIdx' = matchIdx + 1 =>
              LET m == matches[matchIdx + 1]
                  c == Resolve(m)
                  idx == ClaimedIndex(m)
                  outside == ~(0 <= idx /\ idx < Len(c.options))
              IN /\ textPc' = "matching" /\ matches' = matches
                 /\ outside <=> candidates' = candidates
                 /\ ~outside =>
                        candidates' =
                            Append(candidates,
                                   [question |-> c.question,
                                    options |-> c.options,
                                    correct_option_id |-> idx])
        /\ textPc' = "returned" => matchIdx' = Len(matches')
      ]_vars

\* the function returned after a tuple with Arabic markers whose index is
\* beyond its options, dropped, and a later tuple that was kept
C21_Witness ==
    /\ textPc = "returned" /\ Len(matches) = 2
    /\ Strip(matches[1][3])[1] \in Range(arabic_options)
    /\ ~Resolve(matches[1]).raised
    /\ Resolve(matches[1]).options # <<>>
    /\ Resolve(matches[1]).correct_option_id >= Len(Resolve(matches[1]).options)
    /\ candidates = <<Record(Resolve(matches[2]))>>
    /\ questions = candidates

----------------------------------------------------------------------------
(* Properties of process_csv_file, continued.                              *)

\* the options of the latest row after lines 137-148: the non-empty option
\* cells, the answer appended when missing, cut to 10
RowAssembled == Trimmed(RowOptions)

\* C22: when a row that passed lines 121-139 has fewer than 2 options
\* after assembly, its record holds those options followed by one filler
\* option, 2 options in all, and correct_option_id is not the filler's
\* position; with 2 options or more nothing is added.
C22_FillerNeverCorrect ==
    (RowUsable /\ Len(RowCells) >= 1) =>
        IF Len(RowAssembled) < 2
        THEN /\ csvOut.kind = "record"
             /\ csvOut.rec.options = RowAssembled \o <<FillerOption>>
             /\ Len(csvOut.rec.options) = 2
             /\ csvOut.rec.correct_option_id # Len(RowAssembled)
             /\ csvOut.rec.correct_option_id = 0
        ELSE csvOut.kind = "record" => csvOut.rec.options = RowAssembled

\* a row whose only option is its answer went through the loop, here with
\* the filler's own text as that option
C22_Witness ==
    /\ RowUsable /\ Len(RowCells) = 1 /\ Len(RowAssembled) = 1
    /\ RowAnswer = FillerOption
    /\ csvOut.kind = "record"
    /\ csvOut.rec.options = <<FillerOption, FillerOption>>
    /\ csvQuestions # <<>> /\ csvQuestions[Len(csvQuestions)] = csvOut.rec

\* the cells of the latest row that carry an option: its non-empty option
\* cells and its non-empty answer cell
UsableCells ==
    IF Len(csvRow) < 2 THEN 0
    ELSE Len(RowCells) + (IF RowAnswer # <<>> THEN 1 ELSE 0)

\* C23: a row yields no record exactly when its trimmed question is empty,
\* its trimmed answer is empty or it has fewer than 2 usable cells; every
\* other row yields a record; the rows after a skipped or failed row are
\* still processed.
C23_RowSkippedExactlyWhen ==
    /\ csvSeen > 0 =>
          (csvOut.kind # "record" <=>
              \/ Len(csvRow) < 2
              \/ RowQuestion = <<>>
              \/ RowAnswer = <<>>
              \/ UsableCells < 2)
    /\ csvPc \notin {"idle", "rows"} => csvSeen = csvTotal

\* the rows of the file that yielded no record
RowsDropped == csvTotal - Len(csvQuestions)

\* C24: the final report counts every dropped row as skipped: its sent and
\* skipped figures add up to the number of rows of the file.
C24_ReportAccountsForRows ==
    csvPc \in {"reported", "no_valid_questions"} =>
        /\ csvReport.kind = "tally"
        /\ csvReport.skipped >= RowsDropped
        /\ csvReport.sent + csvReport.skipped = csvTotal

----------------------------------------------------------------------------
(* Properties of the document handlers, continued.                         *)

\* the text extracted for coroutine h was empty or white space only
BlankText(h) ==
    Occurrences(hTrace[h], "extract_text") = 1 /\ hText[h].blank

\* C25: a submission whose document gives an empty or white-space-only
\* text gets the "no text" reply and the handler returns: for it
\* extract_questions_from_text is not called, no dispatcher call is made
\* and nothing is published.
C25_BlankTextEndsEarly ==
    \A h \in Handlers :
        BlankText(h) =>
            /\ hPc[h] \in {"reply_no_text", "pdf_reply_no_text",
                           "pdf_delete_notice", "done"}
            /\ Occurrences(hTrace[h], "parse") = 0
            /\ Occurrences(hTrace[h], "dispatch") = 0
            /\ program = "Bot 0.1" => Occurrences(hTrace[h], "analysing") = 0
            /\ hCount[h] = 0 /\ hResult[h] = <<>>
            /\ hPc[h] \in {"pdf_delete_notice", "done"} =>
                   Occurrences(hTrace[h], "no_text") = 1

\* a handler ended after a blank text and the reply about it
C25_Witness ==
    \E h \in Handlers :
        /\ BlankText(h) /\ hPc[h] = "done"
        /\ Occurrences(hTrace[h], "extract_text") = 1
        /\ Occurrences(hTrace[h], "no_text") = 1

\* the accepted submissions of one requester lie at least
\* MIN_INTERVAL_BETWEEN_FILES seconds apart
Separated ==
    \A g, h \in Handlers :
        (g # h /\ hUser[g] = hUser[h]
              /\ hStamp[g] # Absent /\ hStamp[h] # Absent) =>
            \/ hStamp[g] - hStamp[h] >= MIN_INTERVAL_BETWEEN_FILES
            \/ hStamp[h] - hStamp[g] >= MIN_INTERVAL_BETWEEN_FILES

\* C26: however the coroutines interleave at their awaits, a coroutine
\* reads its requester's entry and writes it in one step in which no other
\* coroutine moves; a submission is accepted exactly when the entry read
\* is missing or at least MIN_INTERVAL_BETWEEN_FILES seconds old, so two
\* submissions of one requester less than that apart are never both
\* accepted; an accepted submission writes the entry once, a rejected one
\* never.
C26_GateNotInterleaved ==
    [][ /\ \A h \in Handlers :
             GateStep(h) =>
               LET u == hUser[h]
                   last == user_last_file_time[u]
                   accepted == hStamp'[h] # Absent
               IN /\ \A g \in Handlers \ {h} :
                        hPc'[g] = hPc[g] /\ hStamp'[g] = hStamp[g]
                  /\ accepted <=>
                        (last = Absent
                         \/ now - last >= MIN_INTERVAL_BETWEEN_FILES)
                  /\ accepted => /\ user_last_file_time'[u] = now
                                 /\ hStamp'[h] = now
                  /\ ~accepted => user_last_file_time' = user_last_file_time
        /\ Separated'
        /\ \A h \in Handlers :
             Occurrences(hTrace'[h], "stamp")
                 = (IF hStamp'[h] # Absent THEN 1 ELSE 0)
        /\ user_last_file_time' # user_last_file_time =>
             \E h \in Handlers :
                 GateStep(h) /\ hStamp[h] = Absent /\ hStamp'[h] # Absent
      ]_vars

\* two submissions of one requester were both accepted,
\* MIN_INTERVAL_BETWEEN_FILES seconds apart, the second one while the
\* coroutine of the first was still suspended at an await
C26_Witness ==
    \E g, h \in Handlers :
        /\ g # h /\ hUser[g] = hUser[h]
        /\ hStamp[g] = 0 /\ hStamp[h] = MIN_INTERVAL_BETWEEN_FILES
        /\ hPc[g] \notin {"idle", "arrived", "done"}
        /\ hPc[h] \notin {"idle", "arrived", "done"}
        /\ user_last_file_time[hUser[h]] = hStamp[h]

----------------------------------------------------------------------------
(* Properties of send_paginated_quizzes, continued.                        *)

\* C27: the function looks for a cancellation signal between two batches
\* only: the batch in progress when the signal arrives is finished, no
\* later batch is started, and the records never attempted are left out of
\* error_count (skipped, not failed).
C27_CancelAtBatchBoundary ==
    [][ signalled =>
            /\ i' = i
            /\ lastPolled' <= i + BATCH_SIZE
            /\ pc' = "done" => sent_count' + error_count' = lastPolled'
      ]_vars

----------------------------------------------------------------------------
(* Properties of extract_questions_from_text (Bot 0.1), continued.         *)

\* C28: a block whose option markers are followed by "." yields the
\* record of the same block with ")" after the markers: the same option
\* texts in the same order and the same correct index.
C28_DotMarkersLikeParen ==
    textPc = "returned" =>
        /\ text = ExampleDotText => questions = <<ExampleRecord>>
        /\ \A body \in {Short, LongX}, k \in {2, MaxLines - 2, MaxLines},
              a \in {1, 4} :
               text = MakeBlock("1", body, LowerDot, k, a) =>
                   questions = FirstPerFingerprint(
                       ScanOrder(MakeBlock("1", body, LowerParen, k, a)))

\* C29: sent_count and error_count are never negative; when the progress
\* message after batch k is sent they add up to 5k, which is the figure of
\* that message, and they count the records already dealt with: the ones
\* published in sent_count, the ones given up in error_count.
C29_CountersAtProgress ==
    /\ sent_count >= 0 /\ error_count >= 0
    /\ pc = "progress" =>
          LET k == progressSent + 1
          IN /\ sent_count + error_count = BATCH_SIZE * k
             /\ ProgressFigure = sent_count + error_count
             /\ lastPolled = BATCH_SIZE * k
             /\ curStatus \in {"sent", "failed"}
             /\ sent_count = FinalSent
             /\ error_count = FinalFailed

\* the progress message after the second batch is about to be sent, with
\* records published at once, published by the retry and given up
C29_Witness ==
    /\ pc = "progress" /\ progressSent = 1
    /\ sent_count = 7 /\ error_count = 3
    /\ curPolls = 2 /\ curStatus = "sent"


\* the run has ended: it returned (line 260) or a send_message call raised
Terminated == pc \in {"done", "raised"}

\* C30: when every await returns in the end, a run of
\* send_paginated_quizzes over nq records ends whatever the send_poll calls
\* do; it makes at most 2 * nq send_poll calls, sleeps at most nq
\* rate-limit cooldowns and at most ceil(nq / 5) - 1 inter-batch delays,
\* and a run that returns has slept exactly ceil(nq / 5) - 1 of them.
C30_TerminatesWithinCounts ==
    /\ <>Terminated
    /\ [](/\ polls <= 2 * nq
          /\ polls <= 2 * lastPolled
          /\ cooldowns <= nq
          /\ cooldowns <= lastPolled
          /\ batchDelays <= CeilDiv(nq, BATCH_SIZE) - 1
          /\ pc = "done" =>
                /\ batchDelays = CeilDiv(nq, BATCH_SIZE) - 1
                /\ polls >= nq)

\* a run over 11 records returned after every first call had failed with a
\* rate limit: 22 calls, 11 cooldowns, 2 inter-batch delays
C30_Witness ==
    /\ pc = "done" /\ metered /\ nq = 11
    /\ polls = 22 /\ cooldowns = 11 /\ batchDelays = 2

\* the id (line 161) of the k-th tuple of the run
Fingerprint(k) == QuestionId(Resolve(matches[k]).question)

\* the visited tuples that passed the range test of line 159
ValidVisited == {k \in 1..matchIdx : Resolve(matches[k]).valid}

\* C31: a tuple that is discarded, because its answer index is outside the
\* options or because handling it raised, leaves no id in
\* extracted_questions: the set holds the ids of the tuples that passed
\* the range test and no other, and the first valid tuple of every id is
\* in the output, whatever discarded tuples with that id came before it.
C31_DiscardedLeavesNoFingerprint ==
    textPc \in {"matching", "returned"} /\ matches # <<>> =>
        /\ extracted_questions = {Fingerprint(k) : k \in ValidVisited}
        /\ \A k \in ValidVisited :
              (\A j \in ValidVisited : j < k => Fingerprint(j) # Fingerprint(k))
                  => \E n \in 1..Len(questions) :
                        questions[n] = Record(Resolve(matches[k]))

\* the first tuple, with an index outside its options, was discarded and
\* the second one, with the same id and a valid index, is in the output
C31_Witness ==
    /\ matchIdx >= 2
    /\ ~Resolve(matches[1]).raised /\ ~Resolve(matches[1]).valid
    /\ Resolve(matches[2]).valid
    /\ Fingerprint(1) = Fingerprint(2)
    /\ questions = <<Record(Resolve(matches[2]))>>

\* C32: a submission that passes the interval check writes its time into
\* user_last_file_time at once, before its file name is looked at and
\* before any reply, download, extraction or dispatcher call; the entry
\* stays whatever happens to the submission later, so the next submission
\* of the same requester less than MIN_INTERVAL_BETWEEN_FILES seconds
\* later gets the wait notice, also when the first one was turned down for
\* its missing name or its extension.
C32_StampBeforeValidation ==
    [][ \A h \in Handlers :
          /\ (GateStep(h) /\ hPc'[h] # "reply_wait") =>
                /\ user_last_file_time'[hUser[h]] = now
                /\ hStamp'[h] = now
                /\ hTrace'[h] = <<"stamp">>
          /\ hStamp[h] # Absent =>
                /\ hTrace[h] # <<>> /\ hTrace[h][1] = "stamp"
                /\ hStamp'[h] = hStamp[h]
                /\ user_last_file_time'[hUser[h]] >= hStamp[h]
          /\ \A g \in Handlers \ {h} :
                (/\ GateStep(g)
                 /\ hUser[g] = hUser[h]
                 /\ hStamp[h] # Absent
                 /\ now - hStamp[h] < MIN_INTERVAL_BETWEEN_FILES) =>
                    /\ hPc'[g] = "reply_wait"
                    /\ hStamp'[g] = Absent
                    /\ user_last_file_time' = user_last_file_time
      ]_vars

\* a submission without a usable file was turned down at time 0 and the
\* same requester's next one, 59 seconds later, got the wait notice
C32_Witness ==
    /\ hFile["h1"] \in {"noname", "txt"}
    /\ hStamp["h1"] = 0 /\ hPc["h1"] = "done"
    /\ hTrace["h1"] = <<"stamp", "invalid_file">>
    /\ hUser["h2"] = hUser["h1"]
    /\ now = MIN_INTERVAL_BETWEEN_FILES - 1
    /\ hTrace["h2"] = <<"wait_notice">> /\ hStamp["h2"] = Absent

\* the task the handler of a new message of user u created in this step,
\* if it is of one of the kinds given
Created(u, kinds) ==
    {t \in qTasks' \ qTasks :
        t.msg = qMsgs + 1 /\ t.user = u /\ t.kind \in kinds}

\* the task whose last reply this step delivered
Replied == {t \in qTasks \ qTasks' : t.left = 1}

\* the forwarded quizzes: each one is named by its message, which its
\* handler answers
ForwardedIds ==
    {t.msg : t \in {x \in qTasks : x.kind = "stored"}}
        \cup UNION {{qReplies[u][n].to :
                        n \in {m \in 1..Len(qReplies[u]) :
                                  qReplies[u][m].kind = "stored"}} :
                    u \in Users}

\* the places that hold quiz id: batches, summaries on their way and
\* summaries delivered
Copies(id) ==
    Cardinality({p \in Users \X (1..MaxQuizMessages) :
                    /\ p[2] <= Len(user_quiz_batches[p[1]].quizzes)
                    /\ user_quiz_batches[p[1]].quizzes[p[2]].id = id})
    + Cardinality({p \in qTasks \X (1..MaxQuizMessages) :
                    /\ p[2] <= Len(p[1].items)
                    /\ p[1].items[p[2]].quiz.id = id})
    + Cardinality({p \in Users \X (1..MaxQuizMessages) \X (1..MaxQuizMessages) :
                    /\ p[2] <= Len(qReplies[p[1]])
                    /\ qReplies[p[1]][p[2]].kind = "summary"
                    /\ p[3] <= Len(qReplies[p[1]][p[2]].items)
                    /\ qReplies[p[1]][p[2]].items[p[3]].quiz.id = id})

Expired(u) ==
    /\ user_quiz_batches[u] # NoBatch
    /\ clock > user_quiz_batches[u].expires_at

\* C34: a batch gets expires_at one hour after its creation and keeps it;
\* a quiz forwarded after that time is not added to the expired batch but
\* starts a new one, and a /finish after that time does not deliver the
\* quizzes of the expired batch.
C34_BatchExpires ==
    [][ \A u \in Users :
          /\ (user_quiz_batches[u] = NoBatch
              /\ user_quiz_batches'[u] # NoBatch) =>
                 user_quiz_batches'[u].expires_at = clock + HOUR
          /\ (user_quiz_batches[u] # NoBatch
              /\ user_quiz_batches'[u] # NoBatch
              /\ ~Expired(u)) =>
                 user_quiz_batches'[u].expires_at
                     = user_quiz_batches[u].expires_at
          /\ (Expired(u) /\ Created(u, {"stored"}) # {}) =>
                 /\ Len(user_quiz_batches'[u].quizzes) = 1
                 /\ user_quiz_batches'[u].expires_at = clock + HOUR
          /\ (Expired(u) /\ Created(u, {"summary", "none"}) # {}) =>
                 Created(u, {"summary"}) = {}
      ]_vars

====
